---- MODULE Spec2Model ----
(***************************************************************************)
(* Online object-map builder of slam_vlm/scripts/vlm_object_map.py:        *)
(* projection of the SLAM map points into a frame, assignment of points to *)
(* a detection's box, and the greedy three-gate track association/fusion   *)
(* of build_vlm_object_map / match_to_tracks, the final object map it      *)
(* saves, and the query layer of slam_vlm/scripts/spatial_object_model.py  *)
(* that reloads the saved map; and the endpoints of backend/main.py that   *)
(* receive map points and object maps, answer object queries from the CV   *)
(* pipeline data, keep the spatial context store and run the chat          *)
(* tool-calling loop.                                                      *)
(*                                                                         *)
(* Number representation.  The program computes in floating point; the     *)
(* model computes in fixed point:                                          *)
(*   lengths            integer millimetres          (Milli  per metre)    *)
(*   similarities, embedding components   1/1000     (Milli  per unit)     *)
(*   scores             1/100000000                  (ScoreUnit per unit)  *)
(*   pixels             eighths of a pixel           (Px     per pixel)    *)
(* Divisions and square roots round to the nearest representable value.    *)
(* Labels are sequences of one-character strings so that strip() and       *)
(* lower() are computed character by character.                            *)
(***************************************************************************)
EXTENDS Integers, Sequences, FiniteSets, TLC

\* ------------------------------------------------------------------ units
Milli == 10 * 100
ScoreUnit == 100 * Milli * Milli
Px == 2 * 2 * 2

\* ----------------------------------------------------------------- bounds
\* N of build_vlm_object_map: the number of frames of the run.
NFrames == 2
\* Longest detection list the detector returns for one frame.
MaxDets == 2
\* Cap on the number of detections that reach the association step.
MaxAssoc == 3

\* --------------------------------------------------- fixed-point helpers
Abs(x) == IF x < 0 THEN -x ELSE x

\* a / b rounded to the nearest integer (b > 0).
RDiv(a, b) == (2 * a + b) \div (2 * b)

\* Integer Newton iteration from r >= sqrt(x): ends at floor(sqrt(x)).
RECURSIVE SqrtNewton(_, _)
SqrtNewton(x, r) ==
    LET nxt == (r + x \div r) \div 2
    IN  IF nxt >= r THEN r ELSE SqrtNewton(x, nxt)

\* A power of two that is >= sqrt(x), for 0 < x < 2^31.
SqrtGuess(x) ==
    IF x < 2^8 THEN 2^4
    ELSE IF x < 2^14 THEN 2^7
    ELSE IF x < 2^20 THEN 2^10
    ELSE IF x < 2^22 THEN 2^11
    ELSE IF x < 2^24 THEN 2^12
    ELSE IF x < 2^26 THEN 2^13
    ELSE IF x < 2^28 THEN 2^14
    ELSE 46341

\* sqrt(x) rounded to the nearest integer.
Sqrt(x) ==
    IF x = 0 THEN 0
    ELSE LET r == SqrtNewton(x, SqrtGuess(x))
         IN  IF x - r * r > r THEN r + 1 ELSE r

RECURSIVE SumOver(_, _)
SumOver(S, f) ==
    IF S = {} THEN 0
    ELSE LET x == CHOOSE y \in S : TRUE
         IN  f[x] + SumOver(S \ {x}, f)

\* np.dot of two vectors given as sequences, from position k on.
RECURSIVE DotFrom(_, _, _)
DotFrom(a, b, k) ==
    IF k > Len(a) THEN 0 ELSE a[k] * b[k] + DotFrom(a, b, k + 1)

Dot(a, b) == DotFrom(a, b, 1)

\* np.linalg.norm of a vector given as a sequence.
Norm(v) == Sqrt(Dot(v, v))

\* ----------------------------------------------------------------- labels
UpperChars == <<"A","B","C","D","E","F","G","H","I","J","K","L","M",
                "N","O","P","Q","R","S","T","U","V","W","X","Y","Z">>
LowerChars == <<"a","b","c","d","e","f","g","h","i","j","k","l","m",
                "n","o","p","q","r","s","t","u","v","w","x","y","z">>
Whitespace == {" ", "\t", "\n", "\r"}

LowerChar(c) ==
    IF \E k \in DOMAIN UpperChars : UpperChars[k] = c
    THEN LowerChars[CHOOSE k \in DOMAIN UpperChars : UpperChars[k] = c]
    ELSE c

\* str.lower()
Lower(s) == [k \in DOMAIN s |-> LowerChar(s[k])]

\* str.strip(): drop the leading and the trailing whitespace.
Strip(s) ==
    LET keep == {k \in DOMAIN s : s[k] \notin Whitespace}
    IN  IF keep = {} THEN <<>>
        ELSE LET lo == CHOOSE k \in keep : \A j \in keep : k <= j
                 hi == CHOOSE k \in keep : \A j \in keep : k >= j
             IN  SubSeq(s, lo, hi)

\* label.strip().lower()
NormLabel(s) == Lower(Strip(s))

\* ------------------------------------------------------- program constants
\* Camera intrinsics FX = 458.654, FY = 457.296, CX = 367.215 rounded to the
\* eighth-pixel grid, and CY = 248.375, which is on the grid.
FX == 3669
FY == 3658
CX == 2938
CY == 1987
IMG_W == 752 * Px
IMG_H == 480 * Px
\* MAX_FRAMES = 2000, the cap on the number of frames of a run.
MAX_FRAMES == 2000
\* MAX_DEPTH = 30.0 m; the 0.1 m near limit and the 1e-6 m clamp of project_points.
MAX_DEPTH == 30 * Milli
MinDepth == Milli \div 10
\* min_score = 0.25 of vlm_detect_and_segment and of the frame loop.
MinScore == Milli \div 4
\* best_score = -1.0, the initial value of match_to_tracks.
InitBestScore == -ScoreUnit

\* --------------------------------------------------------- the SLAM inputs
\* The shared point cloud map_pts (0-based indices, millimetres).
map_pts ==
    [k \in 0..10 |->
        CASE k = 0 -> << -400, 0, 1000>>
          [] k = 1 -> << -440, 0, 1100>>
          [] k = 2 -> << 1380, 0, 3450>>
          [] k = 3 -> << 3180, 0, 5850>>
          [] k = 4 -> <<    0, 0, 31000>>     \* beyond MAX_DEPTH
          [] k = 5 -> <<    0, 0, 50>>        \* nearer than 0.1 m
          [] k = 6 -> <<    0, 0, 0>>         \* zero depth: clamped
          [] k = 7 -> <<    0, 0, -1000>>     \* behind the camera
          [] k = 8 -> << 3000, 0, 1000>>      \* right of the image
          [] k = 9 -> <<   60, 0, 1690>>
          [] k = 10 -> <<   0, 0, 30000>>]    \* exactly MAX_DEPTH

\* A point cloud file that holds no point (an array of shape (0, 3)).
no_pts == [k \in {} |-> <<0, 0, 0>>]

\* load_map_points: the array of the point cloud file of the run.
load_map_points(file) == IF file = "room" THEN map_pts ELSE no_pts

Identity3 == << <<1, 0, 0>>, <<0, 1, 0>>, <<0, 0, 1>> >>

\* The world->camera poses T_cw a frame can have.
Poses ==
    { [R |-> Identity3, t |-> <<0, 0, 0>>],
      [R |-> Identity3, t |-> <<0, 0, 40 * Milli>>] }

\* ------------------------------------------------------------- rationals
\* A rational is <<numerator, denominator>>; RatPos makes the denominator > 0.
RatPos(q) == IF q[2] < 0 THEN << -q[1], -q[2] >> ELSE q
\* q >= n, q <= n, q < n for a rational q (denominator > 0) and an integer n.
RatGe(q, n) == q[1] >= n * q[2]
RatLe(q, n) == q[1] <= n * q[2]
RatLt(q, n) == q[1] < n * q[2]
RatGt(q, n) == q[1] > n * q[2]

\* -------------------------------------------------------------- Projector
\* X_c = pts_w @ R_cw.T + t_cw for one point.
CamPoint(R_cw, t_cw, p) ==
    [j \in 1..3 |-> R_cw[j][1] * p[1] + R_cw[j][2] * p[2] + R_cw[j][3] * p[3] + t_cw[j]]

\* z_safe = where(|z| < 1e-6, 1e-6, z), in millimetres as a rational.
ZSafe(z) == IF Abs(z) * Milli < 1 THEN <<1, Milli>> ELSE <<z, 1>>

\* project_points for one point: pixel (u, v), z_safe and the valid flag.
ProjectPoint(R_cw, t_cw, p) ==
    LET X_c == CamPoint(R_cw, t_cw, p)
        zs  == ZSafe(X_c[3])
        u   == RatPos(<<FX * X_c[1] * zs[2] + CX * zs[1], zs[1]>>)
        v   == RatPos(<<FY * X_c[2] * zs[2] + CY * zs[1], zs[1]>>)
    IN  [u |-> u, v |-> v, z_safe |-> zs,
         valid |-> /\ RatGt(zs, MinDepth)
                   /\ RatGe(u, 0) /\ RatLt(u, IMG_W)
                   /\ RatGe(v, 0) /\ RatLt(v, IMG_H)]

project_points(R_cw, t_cw, pts_w) ==
    [k \in DOMAIN pts_w |-> ProjectPoint(R_cw, t_cw, pts_w[k])]

\* Variant: valid_idx without the MAX_DEPTH limit.
ValidIdxAnyDepth(proj) == {k \in DOMAIN proj : proj[k].valid}

\* valid_idx = where(valid & (depth < MAX_DEPTH))
ValidIdx(proj) ==
    {k \in DOMAIN proj : proj[k].valid /\ RatLt(proj[k].z_safe, MAX_DEPTH)}

\* Variant: the box test is applied to every projected point, valid or not.
MaskPointsOfAllProjected(proj, valid_idx, det) ==
    {k \in DOMAIN proj :
        /\ RatGe(proj[k].u, det.bbox[1]) /\ RatLe(proj[k].u, det.bbox[3])
        /\ RatGe(proj[k].v, det.bbox[2]) /\ RatLe(proj[k].v, det.bbox[4])}

\* --------------------------------------------------------- RegionAssigner
\* mask_points_in_detection with det["mask"] = None (the only value the
\* detector wrapper produces): the valid indices whose pixel is in the box.
mask_points_in_detection(proj, valid_idx, det) ==
    LET u1 == det.bbox[1]
        v1 == det.bbox[2]
        u2 == det.bbox[3]
        v2 == det.bbox[4]
    IN  {k \in valid_idx :
            /\ RatGe(proj[k].u, u1) /\ RatLe(proj[k].u, u2)
            /\ RatGe(proj[k].v, v1) /\ RatLe(proj[k].v, v2)}

\* ----------------------------------------------------- detector wrapper
Floor(x) == x \div Px
Ceil(x) == -((-x) \div Px)
Max(a, b) == IF a >= b THEN a ELSE b
Min(a, b) == IF a <= b THEN a ELSE b

\* The integer crop box of vlm_detect_and_segment is empty.
DegenerateCrop(bbox) ==
    LET x1i == Max(0, Floor(bbox[1]))
        y1i == Max(0, Floor(bbox[2]))
        x2i == Min(IMG_W \div Px - 1, Ceil(bbox[3]))
        y2i == Min(IMG_H \div Px - 1, Ceil(bbox[4]))
    IN  x2i <= x1i \/ y2i <= y1i

\* A raw detector output is kept by vlm_detect_and_segment.
KeptByDetector(raw) == raw.score >= MinScore /\ ~DegenerateCrop(raw.bbox)

\* Embeddings (unit vectors, 1/1000) and boxes (eighths of a pixel, x1 y1 x2 y2).
FeatA == <<1000, 0>>
FeatA2 == <<800, 600>>
FeatB == <<600, 800>>
FeatC == <<-1000, 0>>

BoxLeft == <<800, 0, 2000, 3840>>
BoxMid == <<4000, 0, 4640, 3840>>
BoxRight == <<4800, 0, 5200, 3840>>
BoxMidRight == <<4000, 0, 5200, 3840>>
BoxNear == <<3040, 0, 3120, 3840>>
BoxEmpty == <<2400, 0, 3000, 3840>>
BoxLine == <<800, CY, 2000, CY>>
BoxZero == <<1600, 800, 1600, 2400>>
BoxLeftNear == <<800, 0, 3120, 3840>>

Chair == <<"c", "h", "a", "i", "r">>
ChairVariant == <<" ", "C", "h", "a", "i", "r">>
Table == <<"t", "a", "b", "l", "e">>

RawDet(label, bbox, feat, score) ==
    [label |-> label, score |-> score, bbox |-> bbox, mask |-> "None", feat |-> feat]

\* Raw outputs of the detector and embedding models in an ordinary scene.
SceneOutputs ==
    { RawDet(Chair,        BoxLeft,     FeatA,  900),
      RawDet(ChairVariant, BoxLeft,     FeatA2, 900),
      RawDet(Table,        BoxLeft,     FeatA,  900),
      RawDet(Chair,        BoxRight,    FeatA,  900),
      RawDet(Chair,        BoxMid,      FeatA,  900),
      RawDet(Chair,        BoxMidRight, FeatA,  900),
      RawDet(Chair,        BoxNear,     FeatB,  900),
      RawDet(Chair,        BoxEmpty,    FeatA,  900),
      RawDet(Chair,        BoxZero,     FeatA,  900),
      RawDet(Chair,        BoxLeft,     FeatA,  200) }

\* Raw outputs that also hold a zero-height box on the row CY = 248.375 and an
\* embedding opposite to FeatA.
DetectorOutputs ==
    SceneOutputs \cup
    { RawDet(Chair,        BoxLine,     FeatA,  900),
      RawDet(Chair,        BoxMid,      FeatC,  900) }

\* vlm_detect_and_segment: the raw outputs that become detections.
\* A small scene: a chair seen in two parts, and a table (spelled with a
\* capital by the detector) whose box covers both parts.
TableCap == <<"T", "a", "b", "l", "e">>
ObjectOutputs ==
    { RawDet(Chair, BoxLeft, FeatA, 900),
      RawDet(Chair, BoxNear, FeatA2, 900),
      RawDet(TableCap, BoxLeftNear, FeatA, 900),
      RawDet(Chair, BoxEmpty, FeatA, 900) }

\* Every raw output of the detector in some run.
AllOutputs == DetectorOutputs \cup ObjectOutputs

vlm_detect_and_segment(raw) == {d \in raw : KeptByDetector(d)}

\* ---------------------------------------------------------- configuration
\* (cos_thresh, dist_thresh) of the call of match_to_tracks in the frame
\* loop: the call passes neither, so every run uses the defaults 0.75 / 5.0 m.
DefaultConfig == [cos |-> 750, dist |-> 5000]

VARIABLES
    tracks,            \* list[ObjectTrack], in creation order
    next_track_id,     \* the id the next new track gets
    track_to_indices,  \* track id -> set of map point indices
    i,                 \* index of the frame being processed
    pc,                \* "frame": between frames, "dets": in the detection loop
    T_cw,              \* pose of the frame being processed
    dets_left,         \* detections of this frame not yet iterated
    thresholds,        \* the (cos_thresh, dist_thresh) the frame loop matches with
    detector,          \* which raw outputs the detector can produce in this run
    n_assoc,           \* detections that reached the association step
    last,              \* what the last step did
    n_poses,           \* len(T_all): poses in the trajectory file
    n_images,          \* len(img_files): lines of the image list
    cloud,             \* which point cloud file the run loads
    object_map,        \* the final object map (a dict, as its items in order)
    npy_file,          \* what np.save wrote to OBJECT_MAP_NPY
    objects,           \* SpatialObjectModel.objects of the query layer
    result,            \* what the last query returned or raised
    store,             \* SPATIAL_CONTEXT_STORE of the backend (a dict)
    http,              \* the last HTTP request of the backend and its response
    chat,              \* the locals of the chat handler while it runs
    call               \* a call of match_to_tracks on arguments of its own

\* The inputs of a run, and what exists only after the frame loop.
inputs == <<n_poses, n_images, cloud>>
outputs == <<object_map, npy_file, objects, result>>
\* The state of the backend service.
backend == <<store, http, chat>>
\* The state of the mapping pipeline and of its query layer.
pipeline == <<tracks, next_track_id, track_to_indices, i, pc, T_cw, dets_left,
              thresholds, detector, n_assoc, last, inputs, outputs>>

vars == <<pipeline, backend, call>>

\* None, and a file that was not written.
None == [none |-> TRUE]
\* No call of match_to_tracks other than the frame loop's.
NoCall == [pc |-> "none"]
NoFile == [pickle |-> "no file", items |-> <<>>]

\* The detections vlm_detect_and_segment can return in this run.
Detections ==
    vlm_detect_and_segment(CASE detector = "scene" -> SceneOutputs
                             [] detector = "objects" -> ObjectOutputs
                             [] OTHER -> DetectorOutputs)

NoPose == [R |-> <<>>, t |-> <<>>]
NoDet == RawDet(<<>>, <<>>, <<>>, 0)

\* ------------------------------------------------------------ ObjectTrack
\* ObjectTrack.__init__
ObjectTrack(track_id, label, center_3d, feat, frame_idx, init_indices, first_bbox, first_frame_path) ==
    [id |-> track_id,
     label |-> label,
     center_3d |-> center_3d,
     feat |-> feat,
     last_seen |-> frame_idx,
     point_indices |-> init_indices,
     num_obs |-> 1,
     first_frame_idx |-> frame_idx,
     first_bbox |-> first_bbox,
     first_frame_path |-> first_frame_path]

\* str(IMG_DIR / img_files[i])
ImgPath(frame_idx) == <<"images", frame_idx>>

\* pts_obj.mean(axis=0)
Centroid(pts, idx) ==
    [j \in 1..3 |-> RDiv(SumOver(idx, [k \in idx |-> pts[k][j]]), Cardinality(idx))]

\* ---------------------------------------------------------- match_to_tracks
\* cosine_similarity: dot / (|a| |b| + eps) with eps = 1e-8, rounded to
\* 1/1000.  dot and |a||b| are in 1/1000000, where eps is 1/100; next to a
\* product above EpsBelowResolution it moves the quotient by less than 1e-6.
EpsBelowResolution == 5 * Milli
cosine_similarity(a, b) ==
    LET den == Norm(a) * Norm(b)
        dot == Dot(a, b)
    IN  IF den <= EpsBelowResolution
        THEN RDiv(dot * Milli * 100, den * 100 + 1)
        ELSE RDiv(dot * Milli, den)

\* The dtype of the sum |a||b| + eps.  The pipeline's embeddings are float32;
\* a float32 scalar plus the Python float eps is a float32 under NumPy 2
\* promotion (eps is lost next to a product near 1) and a float64 under
\* NumPy 1 promotion, as it is for float64 arrays.
Dtypes == {"float32", "float64"}

\* sim as match_to_tracks compares it, in 1/ScoreUnit: a float64 sum leaves
\* a non-zero similarity closer to 0 than the exact cosine by about 1e-8.
Sign(x) == IF x > 0 THEN 1 ELSE IF x < 0 THEN -1 ELSE 0
SimOf(a, b, dtype) ==
    LET sim == cosine_similarity(a, b) * (ScoreUnit \div Milli)
    IN  IF dtype = "float64" THEN sim - Sign(sim) ELSE sim

\* np.linalg.norm(center_3d - tr.center_3d)
Distance(c1, c2) == Norm([j \in 1..3 |-> c1[j] - c2[j]])

\* label.strip().lower() of every label the detector emits.
Normalized == [l \in {d.label : d \in AllOutputs} |-> NormLabel(l)]

\* Variant: the label gate lets every track through.
LabelGateOff(tr_label, det_label) == TRUE

\* The label gate: tr.label.strip().lower() == detection label, same way.
LabelGate(tr_label, det_label) == Normalized[tr_label] = Normalized[det_label]

\* The appearance gate: the candidate is kept unless sim < cos_thresh.
AppearanceGate(sim, cos_thresh) == ~(sim < cos_thresh)

\* Variant: the geometry gate lets every track through.
GeometryGateOff(dist, dist_thresh) == TRUE

\* The geometry gate: the candidate is kept unless dist > dist_thresh.
GeometryGate(dist, dist_thresh) == ~(dist > dist_thresh)

\* score = sim - 0.01 * dist, in 1/ScoreUnit (sim in 1/ScoreUnit, dist in mm).
Score(sim, dist) == sim - (ScoreUnit \div (100 * Milli)) * dist

\* Variant: a candidate with an equal score replaces the best so far.
BetterOrEqual(score, best_score) == score >= best_score

\* if score > best_score: the candidate replaces the best so far.
Better(score, best_score) == score > best_score

\* The for loop of match_to_tracks from position k on; best_track is a
\* position in trs, 0 for None.
RECURSIVE MatchLoop(_, _, _, _, _, _, _, _)
MatchLoop(detection, center_3d, trs, cfg, dtype, k, best_track, best_score) ==
    IF k > Len(trs) THEN best_track
    ELSE LET tr == trs[k]
             sim == SimOf(detection.feat, tr.feat, dtype)
             dist == Distance(center_3d, tr.center_3d)
             score == Score(sim, dist)
         IN  IF /\ LabelGate(tr.label, detection.label)
                /\ AppearanceGate(sim, cfg.cos * (ScoreUnit \div Milli))
                /\ GeometryGate(dist, cfg.dist)
                /\ Better(score, best_score)
             THEN MatchLoop(detection, center_3d, trs, cfg, dtype, k + 1, k,
                            score)
             ELSE MatchLoop(detection, center_3d, trs, cfg, dtype, k + 1,
                            best_track, best_score)

match_to_tracks(detection, center_3d, trs, cfg, dtype) ==
    MatchLoop(detection, center_3d, trs, cfg, dtype, 1, 0, InitBestScore)

\* ------------------------------------------------------------ track update
\* Variant: alpha is computed from the count after the increment.
AlphaDenAfterIncrement(num_obs) == num_obs + 2

\* alpha = 1.0 / (matched.num_obs + 1), kept as its denominator.
AlphaDen(num_obs) == num_obs + 1

\* (1 - alpha) * old + alpha * new, alpha = 1 / den, per component.
Ema(old, new, den) ==
    [j \in DOMAIN old |-> RDiv((den - 1) * old[j] + new[j], den)]

\* feat / (norm(feat) + 1e-8)
Normalize(f) ==
    LET n == Norm(f)
    IN  IF n = 0 THEN f ELSE [j \in DOMAIN f |-> RDiv(f[j] * Milli, n)]

\* Variant: the update replaces the point set by the detection's points.
UpdateTrackReplacePoints(matched, frame_idx, det, center_3d, obj_indices) ==
    [matched EXCEPT
        !.center_3d = Ema(matched.center_3d, center_3d, matched.num_obs + 1),
        !.feat = Normalize(Ema(matched.feat, det.feat, matched.num_obs + 1)),
        !.last_seen = frame_idx,
        !.num_obs = matched.num_obs + 1,
        !.point_indices = obj_indices]

\* Variant: the update also takes the label and the box of the detection.
UpdateTrackRelabel(matched, frame_idx, det, center_3d, obj_indices) ==
    [matched EXCEPT
        !.label = det.label,
        !.center_3d = Ema(matched.center_3d, center_3d, matched.num_obs + 1),
        !.feat = Normalize(Ema(matched.feat, det.feat, matched.num_obs + 1)),
        !.last_seen = frame_idx,
        !.num_obs = matched.num_obs + 1,
        !.point_indices = matched.point_indices \cup obj_indices,
        !.first_bbox = det.bbox]

\* Variant: an update does not count the observation.
UpdateTrackNoCount(matched, frame_idx, det, center_3d, obj_indices) ==
    [matched EXCEPT
        !.center_3d = Ema(matched.center_3d, center_3d, matched.num_obs + 1),
        !.feat = Normalize(Ema(matched.feat, det.feat, matched.num_obs + 1)),
        !.last_seen = frame_idx,
        !.point_indices = matched.point_indices \cup obj_indices]

\* Variant: a track counts at most one observation per frame.
UpdateTrackOncePerFrame(matched, frame_idx, det, center_3d, obj_indices) ==
    [matched EXCEPT
        !.center_3d = Ema(matched.center_3d, center_3d, matched.num_obs + 1),
        !.feat = Normalize(Ema(matched.feat, det.feat, matched.num_obs + 1)),
        !.last_seen = frame_idx,
        !.num_obs = IF matched.last_seen = frame_idx
                    THEN matched.num_obs ELSE matched.num_obs + 1,
        !.point_indices = matched.point_indices \cup obj_indices]

\* The UPDATE TRACK branch of build_vlm_object_map.
UpdateTrack(matched, frame_idx, det, center_3d, obj_indices) ==
    LET alpha_den == AlphaDen(matched.num_obs)
    IN  [matched EXCEPT
            !.center_3d = Ema(matched.center_3d, center_3d, alpha_den),
            !.feat = Normalize(Ema(matched.feat, det.feat, alpha_den)),
            !.last_seen = frame_idx,
            !.num_obs = matched.num_obs + 1,
            !.point_indices = matched.point_indices \cup obj_indices]

\* Variant: every new track gets the id 0.
NewTrackFixedId(track_id, frame_idx, det, center_3d, obj_indices) ==
    ObjectTrack(0, det.label, center_3d, det.feat, frame_idx,
                obj_indices, det.bbox, ImgPath(frame_idx))

\* Variant: a new track starts with no map point.
NewTrackWithoutPoints(track_id, frame_idx, det, center_3d, obj_indices) ==
    ObjectTrack(track_id, det.label, center_3d, det.feat, frame_idx,
                {}, det.bbox, ImgPath(frame_idx))

\* The NEW TRACK branch of build_vlm_object_map.
NewTrack(track_id, frame_idx, det, center_3d, obj_indices) ==
    ObjectTrack(track_id, det.label, center_3d, det.feat, frame_idx,
                obj_indices, det.bbox, ImgPath(frame_idx))

\* ------------------------------------------------- build_vlm_object_map
Step(op, det, idx, center, tid) ==
    [op |-> op, det |-> det, idx |-> idx, center |-> center, tid |-> tid, frame |-> i]

\* N = min(len(T_all), len(img_files), MAX_FRAMES)
N == Min(Min(n_poses, n_images), MAX_FRAMES)

\* What a query returned (raised = NoError) or raised.
NoError == "no error"
Returned(op, args, value) ==
    [op |-> op, args |-> args, raised |-> NoError, value |-> value]
Raised(op, args, error) ==
    [op |-> op, args |-> args, raised |-> error, value |-> None]

\* No request has been answered yet.
NoResponse == [endpoint |-> "none", request |-> None, status |-> 0, body |-> None]

\* No chat request is being handled.
ChatIdle == [pc |-> "idle"]

\* The backend after start-up: SPATIAL_CONTEXT_STORE = {}.
BackendIdle ==
    /\ store = <<>>
    /\ http = NoResponse
    /\ chat = ChatIdle


\* Before the frame loop ends there is no object map, file or query layer.
NothingBuilt ==
    /\ object_map = <<>>
    /\ npy_file = NoFile
    /\ objects = <<>>
    /\ result = Returned("none", <<>>, None)

Init ==
    /\ tracks = <<>>
    /\ next_track_id = 0
    /\ track_to_indices = <<>>
    /\ i = 0
    /\ pc = "frame"
    /\ T_cw = NoPose
    /\ dets_left = 0
    /\ thresholds = DefaultConfig
    /\ detector = "scene"
    /\ n_assoc = 0
    /\ last = [op |-> "init", det |-> NoDet, idx |-> {}, center |-> <<>>,
               tid |-> -1, frame |-> 0]
    /\ n_poses = NFrames
    /\ n_images = NFrames
    /\ cloud = "room"
    /\ NothingBuilt
    /\ BackendIdle
    /\ call = NoCall

\* Variant: a frame whose image fails to load restarts the registry.
FrameImageFailResets ==
    /\ pc = "frame"
    /\ i < N
    /\ i' = i + 1
    /\ tracks' = <<>>
    /\ next_track_id' = 0
    /\ last' = Step("image_fail", NoDet, {}, <<>>, -1)
    /\ UNCHANGED <<track_to_indices, pc, T_cw,
                   dets_left, thresholds, detector, n_assoc, inputs,
                   backend, call, outputs>>

\* cv2.imread returned None: continue.
FrameImageFail ==
    /\ pc = "frame"
    /\ i < N
    /\ i' = i + 1
    /\ last' = Step("image_fail", NoDet, {}, <<>>, -1)
    /\ UNCHANGED <<tracks, next_track_id, track_to_indices, pc, T_cw,
                   dets_left, thresholds, detector, n_assoc, inputs,
                   backend, call, outputs>>

\* Variant: a frame without detections drops the tracks it did not see.
FrameNoDetectionsDropsTracks ==
    /\ pc = "frame"
    /\ i < N
    /\ i' = i + 1
    /\ tracks' = SelectSeq(tracks, LAMBDA tr : tr.last_seen = i)
    /\ last' = Step("no_detections", NoDet, {}, <<>>, -1)
    /\ UNCHANGED <<next_track_id, track_to_indices, pc, T_cw,
                   dets_left, thresholds, detector, n_assoc, inputs,
                   backend, call, outputs>>

\* vlm_detect_and_segment returned no detection: continue.
FrameNoDetections ==
    /\ pc = "frame"
    /\ i < N
    /\ vlm_detect_and_segment({}) = {}
    /\ i' = i + 1
    /\ last' = Step("no_detections", NoDet, {}, <<>>, -1)
    /\ UNCHANGED <<tracks, next_track_id, track_to_indices, pc, T_cw,
                   dets_left, thresholds, detector, n_assoc, inputs,
                   backend, call, outputs>>

\* uv, depth, valid = project_points(K, R_cw, t_cw, map_pts), per pose.
Projection == [pose \in Poses |-> project_points(pose.R, pose.t, map_pts)]

\* The projection of the run's point cloud for a pose.
ProjectionOf(pose) ==
    IF cloud = "room" THEN Projection[pose]
    ELSE project_points(pose.R, pose.t, load_map_points(cloud))

\* obj_indices of every detection, per pose.
Assigned ==
    [pose \in Poses |-> [det \in vlm_detect_and_segment(AllOutputs) |->
        mask_points_in_detection(Projection[pose], ValidIdx(Projection[pose]), det)]]

\* There are detections, but no map point projects validly within MAX_DEPTH:
\* continue.
FrameNoValidPoints ==
    /\ pc = "frame"
    /\ i < N
    /\ \E pose \in Poses : ValidIdx(ProjectionOf(pose)) = {}
    /\ i' = i + 1
    /\ last' = Step("no_valid_points", NoDet, {}, <<>>, -1)
    /\ UNCHANGED <<tracks, next_track_id, track_to_indices, pc, T_cw,
                   dets_left, thresholds, detector, n_assoc, inputs,
                   backend, call, outputs>>

\* There are detections and valid points: the detection loop starts.
FrameBegin ==
    /\ pc = "frame"
    /\ i < N
    /\ \E pose \in Poses, n \in 1..MaxDets :
        /\ ValidIdx(ProjectionOf(pose)) # {}
        /\ T_cw' = pose
        /\ dets_left' = n
    /\ pc' = "dets"
    /\ last' = Step("frame_begin", NoDet, {}, <<>>, -1)
    /\ UNCHANGED <<tracks, next_track_id, track_to_indices, i, thresholds,
                   detector, n_assoc, inputs, backend, call, outputs>>

\* obj_indices of a detection in the frame being processed.
ObjIndices(det) == Assigned[T_cw][det]

\* center_3d = map_pts[obj_indices].mean(axis=0) of every detection, per pose.
Centers ==
    [pose \in Poses |-> [det \in vlm_detect_and_segment(AllOutputs) |->
        IF Assigned[pose][det] = {} THEN <<>>
        ELSE Centroid(map_pts, Assigned[pose][det])]]

\* The detection loop moves on to the next detection, or to the next frame.
NextDetection ==
    /\ dets_left' = dets_left - 1
    /\ IF dets_left = 1
       THEN i' = i + 1 /\ pc' = "frame" /\ T_cw' = NoPose
       ELSE UNCHANGED <<i, pc, T_cw>>

\* Variant: only the score decides whether a detection is skipped.
SkipOnScoreOnly(det, obj_indices) == det.score < MinScore

\* The two `continue` tests of the detection loop: score < 0.25, or no map
\* point in the detection.
SkipDetection(det, obj_indices) == det.score < MinScore \/ obj_indices = {}

\* The detection is skipped: continue.
DetSkip(det) ==
    /\ pc = "dets"
    /\ dets_left > 0
    /\ SkipDetection(det, ObjIndices(det))
    /\ NextDetection
    /\ last' = Step("skip", det, ObjIndices(det), <<>>, -1)
    /\ UNCHANGED <<tracks, next_track_id, track_to_indices, thresholds,
                   detector, n_assoc, inputs, backend, call, outputs>>

\* The detection matches no track: NEW TRACK.
DetNew(det, center_3d, obj_indices) ==
    /\ tracks' = Append(tracks,
            NewTrack(next_track_id, i, det, center_3d, obj_indices))
    /\ track_to_indices' =
            [t \in DOMAIN track_to_indices \cup {next_track_id} |->
                IF t = next_track_id
                THEN (IF t \in DOMAIN track_to_indices
                      THEN track_to_indices[t] ELSE {}) \cup obj_indices
                ELSE track_to_indices[t]]
    /\ next_track_id' = next_track_id + 1
    /\ last' = Step("new", det, obj_indices, center_3d, next_track_id)

\* The detection matches the track at position m: UPDATE TRACK.
DetUpdate(det, center_3d, obj_indices, m) ==
    /\ tracks' = [tracks EXCEPT ![m] =
            UpdateTrack(tracks[m], i, det, center_3d, obj_indices)]
    /\ track_to_indices' =
            [track_to_indices EXCEPT ![tracks[m].id] = @ \cup obj_indices]
    /\ last' = Step("update", det, obj_indices, center_3d, tracks[m].id)
    /\ UNCHANGED next_track_id

\* A detection with map points reaches the association step.  The dtype of
\* the similarity is the build's; it is drawn at each call, which admits
\* every run of either build.
DetAssociate(det) ==
    LET obj_indices == ObjIndices(det)
        center_3d == Centers[T_cw][det]
    IN  /\ pc = "dets"
        /\ dets_left > 0
        /\ n_assoc < MaxAssoc
        /\ ~SkipDetection(det, obj_indices)
        /\ \E dtype \in Dtypes :
            LET matched == match_to_tracks(det, center_3d, tracks, thresholds,
                                           dtype)
            IN  \/ matched = 0 /\ DetNew(det, center_3d, obj_indices)
                \/ matched # 0
                      /\ DetUpdate(det, center_3d, obj_indices, matched)
        /\ n_assoc' = n_assoc + 1
        /\ NextDetection
        /\ UNCHANGED <<thresholds, detector, inputs, backend, call, outputs>>

\* One iteration of `for det in detections`.
Skip == \E det \in Detections : DetSkip(det)
Associate == \E det \in Detections : DetAssociate(det)

\* ------------------------------------------------------------ Finalizer
\* A Python dict is modelled as the sequence of its items in insertion order.
DictHas(d, key) == \E k \in 1..Len(d) : d[k].key = key

\* d.get(key): the value, or None when the key is absent.
DictGet(d, key) ==
    IF DictHas(d, key)
    THEN d[CHOOSE k \in 1..Len(d) : d[k].key = key].value
    ELSE None

\* d[key] = value: replaces the value of an existing key in place, or appends.
DictSet(d, key, value) ==
    IF DictHas(d, key)
    THEN [k \in 1..Len(d) |->
            IF d[k].key = key THEN [key |-> key, value |-> value] ELSE d[k]]
    ELSE Append(d, [key |-> key, value |-> value])

\* list(d.keys())
DictKeys(d) == [k \in 1..Len(d) |-> d[k].key]

\* str(n) of a non-negative integer, as a sequence of characters.
DigitChars == <<"0", "1", "2", "3", "4", "5", "6", "7", "8", "9">>
RECURSIVE Str(_)
Str(n) ==
    IF n < 10 THEN <<DigitChars[n + 1]>>
    ELSE Str(n \div 10) \o <<DigitChars[(n % 10) + 1]>>

\* sorted(S) of a set of integers.
RECURSIVE Sorted(_)
Sorted(S) ==
    IF S = {} THEN <<>>
    ELSE LET m == CHOOSE x \in S : \A y \in S : x <= y
         IN  <<m>> \o Sorted(S \ {m})

\* Variant: the key is the label alone.
KeyLabelOnly(label, id) == label

\* key = f"{tr.label}_{tr.id}"
ObjectKey(label, id) == label \o <<"_">> \o Str(id)

\* pts.min(axis=0), pts.max(axis=0) of a non-empty list of points.
AxisMin(pts) ==
    [j \in 1..3 |-> CHOOSE x \in {pts[k][j] : k \in 1..Len(pts)} :
                        \A k \in 1..Len(pts) : x <= pts[k][j]]
AxisMax(pts) ==
    [j \in 1..3 |-> CHOOSE x \in {pts[k][j] : k \in 1..Len(pts)} :
                        \A k \in 1..Len(pts) : x >= pts[k][j]]

\* Variant: the record's center is the track's running centroid.
CenterFromTrack(tr, pts_all, idx) == tr.center_3d

\* center = pts.mean(axis=0), pts = map_pts[idx]
FinalCenter(tr, pts_all, idx) == Centroid(pts_all, {idx[k] : k \in 1..Len(idx)})

\* The record object_map[key] of a track whose sorted index array is idx.
ObjectRecord(tr, pts_all, idx) ==
    LET pts      == [k \in 1..Len(idx) |-> pts_all[idx[k]]]
        center   == FinalCenter(tr, pts_all, idx)
        bbox_min == AxisMin(pts)
        bbox_max == AxisMax(pts)
    IN  [label |-> tr.label,
         center |-> center,
         indices |-> idx,
         num_points |-> Len(pts),
         bbox_min |-> bbox_min,
         bbox_max |-> bbox_max,
         num_obs |-> tr.num_obs,
         first_frame_idx |-> tr.first_frame_idx,
         first_bbox |-> tr.first_bbox,
         first_frame_path |-> tr.first_frame_path,
         position |-> center,
         size |-> [j \in 1..3 |-> bbox_max[j] - bbox_min[j]],
         point_cloud |-> pts]

\* track_to_indices rebuilt from the final tracks: tr.id -> tr.point_indices.
RebuiltIndices(trs) ==
    [id \in {trs[k].id : k \in 1..Len(trs)} |->
        LET last_k == CHOOSE k \in 1..Len(trs) :
                        /\ trs[k].id = id
                        /\ \A m \in 1..Len(trs) : trs[m].id = id => m <= k
        IN  trs[last_k].point_indices]

\* for tr in tracks: skip a track without points, else object_map[key] = {...}
RECURSIVE FinalizeLoop(_, _, _, _, _)
FinalizeLoop(trs, tti, pts_all, k, om) ==
    IF k > Len(trs) THEN om
    ELSE LET tr  == trs[k]
             idx == Sorted(tti[tr.id])
         IN  IF Len(idx) = 0
             THEN FinalizeLoop(trs, tti, pts_all, k + 1, om)
             ELSE FinalizeLoop(trs, tti, pts_all, k + 1,
                      DictSet(om, ObjectKey(tr.label, tr.id),
                              ObjectRecord(tr, pts_all, idx)))

\* np.save(path, object_map, allow_pickle=True): the pickled dict, item by
\* item in order; np.load(path, allow_pickle=True).item() reads it back.
np_save(obj) == [pickle |-> "dict", items |-> obj]
np_load_item(file) == file.items

\* The frame loop is over: build the final object map and save it.
Finalize ==
    /\ pc = "frame"
    /\ i = N
    /\ pc' = "done"
    /\ track_to_indices' = RebuiltIndices(tracks)
    /\ object_map' = FinalizeLoop(tracks, RebuiltIndices(tracks),
                                  load_map_points(cloud), 1, <<>>)
    /\ npy_file' = np_save(object_map')
    /\ last' = Step("finalize", NoDet, {}, <<>>, -1)
    /\ UNCHANGED <<tracks, next_track_id, i, T_cw, dets_left, thresholds,
                   detector, n_assoc, inputs, backend, call, objects, result>>

Next ==
    \/ Finalize
    \/ FrameImageFail
    \/ FrameNoDetections
    \/ FrameNoValidPoints
    \/ FrameBegin
    \/ Skip
    \/ Associate

Spec == Init /\ [][Next]_vars

\* The same program with a detector that also emits a zero-height box on the
\* row CY (between two pixel rows) and an embedding opposite to FeatA.
InitOpen ==
    /\ tracks = <<>>
    /\ next_track_id = 0
    /\ track_to_indices = <<>>
    /\ i = 0
    /\ pc = "frame"
    /\ T_cw = NoPose
    /\ dets_left = 0
    /\ thresholds = DefaultConfig
    /\ detector = "any"
    /\ n_assoc = 0
    /\ last = [op |-> "init", det |-> NoDet, idx |-> {}, center |-> <<>>,
               tid |-> -1, frame |-> 0]
    /\ n_poses = NFrames
    /\ n_images = NFrames
    /\ cloud = "room"
    /\ NothingBuilt
    /\ BackendIdle
    /\ call = NoCall

SpecOpen == InitOpen /\ [][Next]_vars

\* The same program on input files of any shape: a trajectory and an image
\* list of any lengths up to NFrames, and a point cloud with or without points.
InitInputs ==
    /\ tracks = <<>>
    /\ next_track_id = 0
    /\ track_to_indices = <<>>
    /\ i = 0
    /\ pc = "frame"
    /\ T_cw = NoPose
    /\ dets_left = 0
    /\ thresholds = DefaultConfig
    /\ detector = "scene"
    /\ n_assoc = 0
    /\ last = [op |-> "init", det |-> NoDet, idx |-> {}, center |-> <<>>,
               tid |-> -1, frame |-> 0]
    /\ n_poses \in 0..NFrames
    /\ n_images \in 0..NFrames
    /\ cloud \in {"room", "empty"}
    /\ NothingBuilt
    /\ BackendIdle
    /\ call = NoCall

SpecInputs == InitInputs /\ [][Next]_vars

\* -------------------------------------------------- SpatialObjectModel
\* obj.get(field): the field's value, or None when the record lacks it.
Get(obj, field) == IF field \in DOMAIN obj THEN obj[field] ELSE None

\* Variant: the copy of a record with an empty point cloud.
CopyWithoutPointCloud(obj) == [obj EXCEPT !.point_cloud = <<>>]

\* self.objects[key] = {...}: the field-by-field copy of a saved record.
CopyRecord(obj) ==
    [label |-> Get(obj, "label"),
     center |-> Get(obj, "center"),
     indices |-> Get(obj, "indices"),
     num_points |-> Get(obj, "num_points"),
     bbox_min |-> Get(obj, "bbox_min"),
     bbox_max |-> Get(obj, "bbox_max"),
     num_obs |-> Get(obj, "num_obs"),
     first_frame_idx |-> Get(obj, "first_frame_idx"),
     first_bbox |-> Get(obj, "first_bbox"),
     first_frame_path |-> Get(obj, "first_frame_path"),
     position |-> Get(obj, "position"),
     size |-> Get(obj, "size"),
     point_cloud |-> Get(obj, "point_cloud")]

\* for key, obj in self.object_map.items(): self.objects[key] = {...}
RECURSIVE LoadLoop(_, _, _)
LoadLoop(items, k, objs) ==
    IF k > Len(items) THEN objs
    ELSE LoadLoop(items, k + 1,
                  DictSet(objs, items[k].key, CopyRecord(items[k].value)))

\* SpatialObjectModel.__init__ on the saved file.
Load ==
    /\ pc = "done"
    /\ npy_file # NoFile
    /\ pc' = "loaded"
    /\ objects' = LoadLoop(np_load_item(npy_file), 1, <<>>)
    /\ UNCHANGED <<tracks, next_track_id, track_to_indices, i, T_cw, dets_left,
                   thresholds, detector, n_assoc, last, inputs, backend, call, object_map,
                   npy_file, result>>

\* Variant: a lookup that inserts the missing key, as dict.setdefault does.
ObjectsAfterSetdefault(objs, key) ==
    IF DictHas(objs, key) THEN objs ELSE Append(objs, [key |-> key, value |-> None])

\* self.objects after self.objects.get(key): dict.get inserts nothing.
ObjectsAfterGet(objs, key) == objs

\* Variant: labels compared as they are spelled.
SameLabelExact(a, b) == a = b

\* v['label'].lower() == label.lower()
SameLabel(a, b) == Lower(a) = Lower(b)

\* [k for k, v in self.objects.items() if v['label'].lower() == label.lower()]
RECURSIVE ByLabelLoop(_, _, _)
ByLabelLoop(objs, label, k) ==
    IF k > Len(objs) THEN <<>>
    ELSE (IF SameLabel(objs[k].value.label, label) THEN <<objs[k].key>> ELSE <<>>)
            \o ByLabelLoop(objs, label, k + 1)
get_object_by_label(objs, label) == ByLabelLoop(objs, label, 1)

\* Variant: a missing key gives the distance 0 instead of an error.
ZeroForMissingKey(key1, key2) == Returned("distance_between_objects", <<key1, key2>>, 0)

\* raise ValueError("One or both object keys not found: ...")
RaiseKeyNotFound(key1, key2) ==
    Raised("distance_between_objects", <<key1, key2>>, "ValueError")

distance_between_objects(objs, key1, key2) ==
    LET obj1 == DictGet(objs, key1)
        obj2 == DictGet(objs, key2)
    IN  IF obj1 = None \/ obj2 = None
        THEN RaiseKeyNotFound(key1, key2)
        ELSE Returned("distance_between_objects", <<key1, key2>>,
                      Distance(obj1.center, obj2.center))

\* The keys and labels a caller asks for: every key of the map and a key
\* that is not in it; the labels of the scene in several spellings, and one
\* that no object has.
Sofa == <<"s", "o", "f", "a">>
ChairUpper == <<"C", "H", "A", "I", "R">>
QueryKeys == {objects[k].key : k \in 1..Len(objects)} \cup {ObjectKey(Sofa, 9)}
QueryLabels == {Chair, ChairUpper, ChairVariant, Table, Sofa}

GetObjectKeys ==
    /\ pc = "loaded"
    /\ result' = Returned("get_object_keys", <<>>, DictKeys(objects))
    /\ UNCHANGED <<tracks, next_track_id, track_to_indices, i, pc, T_cw,
                   dets_left, thresholds, detector, n_assoc, last, inputs, backend, call,
                   object_map, npy_file, objects>>

GetObjectInfo ==
    /\ pc = "loaded"
    /\ \E key \in QueryKeys :
        /\ result' = Returned("get_object_info", <<key>>, DictGet(objects, key))
        /\ objects' = ObjectsAfterGet(objects, key)
    /\ UNCHANGED <<tracks, next_track_id, track_to_indices, i, pc, T_cw,
                   dets_left, thresholds, detector, n_assoc, last, inputs, backend, call,
                   object_map, npy_file>>

GetObjectByLabel ==
    /\ pc = "loaded"
    /\ \E label \in QueryLabels :
        result' = Returned("get_object_by_label", <<label>>,
                           get_object_by_label(objects, label))
    /\ UNCHANGED <<tracks, next_track_id, track_to_indices, i, pc, T_cw,
                   dets_left, thresholds, detector, n_assoc, last, inputs, backend, call,
                   object_map, npy_file, objects>>

DistanceBetweenObjects ==
    /\ pc = "loaded"
    /\ \E key1 \in QueryKeys, key2 \in QueryKeys :
        /\ result' = distance_between_objects(objects, key1, key2)
        /\ objects' = ObjectsAfterGet(ObjectsAfterGet(objects, key1), key2)
    /\ UNCHANGED <<tracks, next_track_id, track_to_indices, i, pc, T_cw,
                   dets_left, thresholds, detector, n_assoc, last, inputs, backend, call,
                   object_map, npy_file>>

\* The builder on the small scene, followed by the query layer on its file.
InitMap ==
    /\ tracks = <<>>
    /\ next_track_id = 0
    /\ track_to_indices = <<>>
    /\ i = 0
    /\ pc = "frame"
    /\ T_cw = NoPose
    /\ dets_left = 0
    /\ thresholds = DefaultConfig
    /\ detector = "objects"
    /\ n_assoc = 0
    /\ last = [op |-> "init", det |-> NoDet, idx |-> {}, center |-> <<>>,
               tid |-> -1, frame |-> 0]
    /\ n_poses = NFrames
    /\ n_images = NFrames
    /\ cloud = "room"
    /\ NothingBuilt
    /\ BackendIdle
    /\ call = NoCall

NextMap ==
    \/ Next
    \/ Load
    \/ GetObjectKeys
    \/ GetObjectInfo
    \/ GetObjectByLabel
    \/ DistanceBetweenObjects

SpecMap == InitMap /\ [][NextMap]_vars

\* ------------------------------------------- match_to_tracks as a function
\* match_to_tracks takes cos_thresh and dist_thresh as keyword arguments.
\* Calls of it on arguments of its own: the defaults, an appearance gate at
\* 0.0, and an appearance gate switched off (cos_thresh = -1.0).
ZeroConfig == [cos |-> 0, dist |-> 5000]
OpenConfig == [cos |-> -1000, dist |-> 5000]
CallConfigs == {DefaultConfig, ZeroConfig, OpenConfig}

\* The tracks of a call: a chair on the optical axis at 1 m, and a chair
\* 5 m from it whose embedding is orthogonal to the first one's.
FeatUp == <<0, 1000>>
TrackNear == ObjectTrack(0, Chair, <<0, 0, 1000>>, FeatA, 0, {0, 1}, BoxLeft, ImgPath(0))
TrackFar == ObjectTrack(1, Chair, <<3000, 0, 5000>>, FeatUp, 0, {2}, BoxRight, ImgPath(0))
CallTracks == {<<>>, <<TrackNear>>, <<TrackNear, TrackFar>>, <<TrackFar, TrackNear>>}

\* The detections of a call and their centroids: at TrackNear, 3 m from it,
\* 5 m from it, and just beyond 5 m from it.
CallDetections ==
    {RawDet(Chair, BoxLeft, f, 900) : f \in {FeatA, FeatB, FeatUp, FeatC}}
        \cup {RawDet(Table, BoxLeft, FeatA, 900)}
CallCenters ==
    {<<0, 0, 1000>>, <<1800, 0, 3400>>, <<3000, 0, 5000>>, <<3000, 0, 5002>>}

MatchCalls ==
    {[pc |-> "called", detection |-> d, center_3d |-> c, tracks |-> trs,
      cos_thresh |-> cfg.cos, dist_thresh |-> cfg.dist, dtype |-> dtype,
      matched |-> 0] :
        d \in CallDetections, c \in CallCenters, trs \in CallTracks,
        cfg \in CallConfigs, dtype \in Dtypes}

\* match_to_tracks(detection, center_3d, tracks, frame_idx, cos_thresh,
\* dist_thresh) returns; matched is a position in tracks, 0 for None.
MatchToTracks ==
    /\ call.pc = "called"
    /\ call' = [call EXCEPT
                   !.pc = "returned",
                   !.matched = match_to_tracks(call.detection, call.center_3d,
                                               call.tracks,
                                               [cos |-> call.cos_thresh,
                                                dist |-> call.dist_thresh],
                                               call.dtype)]
    /\ UNCHANGED <<pipeline, backend>>

InitMatch ==
    /\ tracks = <<>>
    /\ next_track_id = 0
    /\ track_to_indices = <<>>
    /\ i = 0
    /\ pc = "frame"
    /\ T_cw = NoPose
    /\ dets_left = 0
    /\ thresholds = DefaultConfig
    /\ detector = "scene"
    /\ n_assoc = 0
    /\ last = [op |-> "init", det |-> NoDet, idx |-> {}, center |-> <<>>,
               tid |-> -1, frame |-> 0]
    /\ n_poses = NFrames
    /\ n_images = NFrames
    /\ cloud = "room"
    /\ NothingBuilt
    /\ BackendIdle
    /\ call \in MatchCalls

NextMatch == MatchToTracks

SpecMatch == InitMatch /\ [][NextMatch]_vars

TypeOK ==
    /\ next_track_id \in 0..MaxAssoc
    /\ i \in 0..NFrames
    /\ pc \in {"frame", "dets", "done", "loaded"}
    /\ dets_left \in 0..MaxDets
    /\ thresholds = DefaultConfig

\* ================================================================ backend
\* The backend service (src/backend/main.py).  Its handlers run one at a
\* time: none of them awaits between its first and its last statement.

\* ------------------------------------------------- POST /api/slam/map-points
\* `if data.total_points < 50`
MinMapPoints == 50
\* `data.map_points[:5]`: the points whose format is checked and echoed.
SamplePoints == 5

\* raise HTTPException(status_code, detail)
HTTPException(status_code, detail) ==
    [status |-> status_code, body |-> [detail |-> detail]]

\* A handler returned a value: HTTP 200.
Ok(body) == [status |-> 200, body |-> body]

\* upload_map_points(data), data a MapPointsData.
upload_map_points(data) ==
    IF data.map_points = <<>>
    THEN HTTPException(400, "Map points cannot be empty")
    ELSE IF data.total_points < MinMapPoints
    THEN HTTPException(400, "Insufficient map points")
    ELSE IF \E k \in 1..Min(SamplePoints, Len(data.map_points)) :
                Len(data.map_points[k]) # 3
    THEN HTTPException(400, "Invalid point format")
    ELSE Ok([status |-> "success",
             points_received |-> data.total_points,
             format |-> data.format,
             sample_points |-> SubSeq(data.map_points, 1,
                                     Min(SamplePoints, Len(data.map_points)))])

\* A list of n points of three coordinates, except that the point at
\* position bad, if there is one, has `arity` coordinates.
PointList(n, bad, arity) ==
    [k \in 1..n |-> IF k = bad THEN [j \in 1..arity |-> 0] ELSE <<k, 0, 0>>]

\* The MapPointsData payloads a client sends: total_points is a field of its
\* own, which need not be the number of points sent.
MapPointsPayloads ==
    {[map_points |-> PointList(n, bad, arity), total_points |-> total,
      format |-> "3-float"] :
        n \in {0, 1, SamplePoints + 1, MinMapPoints},
        bad \in {0, 1, SamplePoints + 1},
        arity \in {2, 4},
        total \in {MinMapPoints - 1, MinMapPoints}}

\* ------------------------------------------------ CV_PIPELINE_DATA
\* The labels of dummy_cv_results, as sequences of characters.
CvLabels ==
    [ladder |-> <<"l", "a", "d", "d", "e", "r">>,
     doorway |-> <<"d", "o", "o", "r", "w", "a", "y">>,
     heavy_equipment |-> <<"h", "e", "a", "v", "y", "_", "e", "q", "u", "i", "p", "m", "e", "n", "t">>,
     overhead_shelf |-> <<"o", "v", "e", "r", "h", "e", "a", "d", "_", "s", "h", "e", "l", "f">>,
     worker |-> <<"w", "o", "r", "k", "e", "r">>,
     hard_hat |-> <<"h", "a", "r", "d", "_", "h", "a", "t">>]

CvObject(id, label, x, y, z) ==
    [id |-> id, label |-> label,
     xyz_coordinates |-> [x |-> x, y |-> y, z |-> z], depth |-> z]

\* The objects every frame of dummy_cv_results holds, in millimetres.
FixedObjects ==
    << CvObject("obj_1", CvLabels.ladder, 2500, 0, 3200),
       CvObject("obj_2", CvLabels.doorway, 2400, 0, 3500),
       CvObject("obj_3", CvLabels.heavy_equipment, 0, 2800, 5000),
       CvObject("obj_4", CvLabels.overhead_shelf, 2500, 2300, 3000) >>

\* dummy_data.dummy_cv_results: three frames; time in milliseconds.
CV_PIPELINE_DATA ==
    [video_id |-> "workplace_safety_001",
     frames |->
        << [frame_number |-> 0, time |-> 0,
            objects |-> Append(FixedObjects,
                               CvObject("obj_5", CvLabels.worker, -1500, 0, 4000))],
           [frame_number |-> 90, time |-> 3000,
            objects |-> Append(FixedObjects,
                               CvObject("obj_5", CvLabels.worker, 2300, 0, 3300))],
           [frame_number |-> 180, time |-> 6000,
            objects |-> FixedObjects \o
                << CvObject("obj_5", CvLabels.worker, 2500, 1800, 3200),
                   CvObject("obj_6", CvLabels.hard_hat, 2500, 2100, 3200) >>] >>]

\* ------------------------------------------ execute_get_object_location
\* The entry of found_objects for an object of the spatial map.
FoundInMap(key, obj) ==
    [object_key |-> key,
     label |-> obj.label,
     coordinates |-> [x |-> obj.center[1], y |-> obj.center[2], z |-> obj.center[3]],
     first_frame_idx |-> obj.first_frame_idx,
     num_observations |-> obj.num_obs,
     source |-> "spatial_map"]

\* The entry of found_objects for an object of a frame of the CV pipeline.
FoundInFrame(frame, obj) ==
    [frame_number |-> frame.frame_number,
     time |-> frame.time,
     object_id |-> obj.id,
     label |-> obj.label,
     coordinates |-> obj.xyz_coordinates,
     depth |-> obj.depth,
     confidence |-> 0,
     source |-> "cv_pipeline"]

\* The first loop: the objects of the session's spatial map with the label.
RECURSIVE FoundInMapLoop(_, _, _, _)
FoundInMapLoop(spatial_map, object_class, k, found_objects) ==
    IF k > Len(spatial_map) THEN found_objects
    ELSE FoundInMapLoop(spatial_map, object_class, k + 1,
            IF Lower(spatial_map[k].value.label) = Lower(object_class)
            THEN Append(found_objects,
                        FoundInMap(spatial_map[k].key, spatial_map[k].value))
            ELSE found_objects)

\* The inner loop over the objects of one frame.
RECURSIVE FoundInFrameLoop(_, _, _, _)
FoundInFrameLoop(frame, object_class, k, found_objects) ==
    IF k > Len(frame.objects) THEN found_objects
    ELSE FoundInFrameLoop(frame, object_class, k + 1,
            IF Lower(frame.objects[k].label) = Lower(object_class)
            THEN Append(found_objects, FoundInFrame(frame, frame.objects[k]))
            ELSE found_objects)

\* The second loop: the frames of CV_PIPELINE_DATA in list order.
RECURSIVE FoundInFramesLoop(_, _, _, _)
FoundInFramesLoop(frames, object_class, k, found_objects) ==
    IF k > Len(frames) THEN found_objects
    ELSE FoundInFramesLoop(frames, object_class, k + 1,
            FoundInFrameLoop(frames[k], object_class, 1, found_objects))

\* primary = found_objects[0]
Primary(found_objects) == found_objects[1]

\* execute_get_object_location(object_class, session_context); the message
\* text is left out.
execute_get_object_location(object_class, session_context) ==
    LET in_map == IF DictHas(session_context, "spatial_map")
                  THEN FoundInMapLoop(DictGet(session_context, "spatial_map"),
                                      object_class, 1, <<>>)
                  ELSE <<>>
        found_objects == FoundInFramesLoop(CV_PIPELINE_DATA.frames,
                                           object_class, 1, in_map)
    IN  IF found_objects # <<>>
        THEN [found |-> TRUE,
              objects |-> found_objects,
              count |-> Len(found_objects),
              primary_location |-> Primary(found_objects).coordinates]
        ELSE [found |-> FALSE]

\* get_object_last_location(object_class): no session context is passed.
get_object_last_location(object_class) ==
    LET res == execute_get_object_location(object_class, <<>>)
    IN  IF ~res.found THEN HTTPException(404, "No such object found")
        ELSE Ok(res)

\* The object classes a client asks for.
ObjectClasses ==
    {CvLabels.worker, <<"W", "o", "r", "k", "e", "r">>, CvLabels.ladder,
     CvLabels.hard_hat, Sofa}

\* The response to a request, next to the request.
Respond(endpoint, request, r) ==
    [endpoint |-> endpoint, request |-> request, status |-> r.status, body |-> r.body]

\* ------------------------------------------------ spatial context store
\* An Optional value that is present; an absent one is None.
Some(v) == [some |-> v]

\* `if x:` for an Optional[str]: neither None nor the empty string.
Truthy(x) == x # None /\ x.some # ""

\* d.update(other), both dicts.
RECURSIVE DictUpdate(_, _, _)
DictUpdate(d, other, k) ==
    IF k > Len(other) THEN d
    ELSE DictUpdate(DictSet(d, other[k].key, other[k].value), other, k + 1)

\* get_spatial_context(session_id): SPATIAL_CONTEXT_STORE.get(session_id, {})
get_spatial_context(st, session_id) ==
    IF DictHas(st, session_id) THEN DictGet(st, session_id) ELSE <<>>

\* store_spatial_context(session_id, context_data): the store afterwards;
\* last_updated is the time of the call.
store_spatial_context(st, session_id, context_data) ==
    DictSet(st, session_id,
            DictSet(DictUpdate(get_spatial_context(st, session_id), context_data, 1),
                    "last_updated", "utcnow"))

\* str(datetime.utcnow().timestamp()) at the time of a request.
Timestamps == {"1761696000.5"}

\* get_or_create_session_id(video_id, user_id), with the clock it reads.
get_or_create_session_id(video_id, user_id, now) ==
    IF Truthy(video_id) THEN "session_" \o video_id.some
    ELSE IF Truthy(user_id) THEN "session_user_" \o user_id.some
    ELSE "session_" \o now

\* ----------------------------------------------- POST /api/slam/spatial-map
\* The image paths of uploaded maps.
FramePath == "/data/images/000000.jpg"

\* hashlib.md5(path.encode()).hexdigest()[:12], for the paths of the model.
Md5Hex12(path) ==
    CASE path = FramePath -> "e67603deb3d7"
      [] path = "" -> "d41d8cd98f00"

\* required_fields of upload_spatial_map
RequiredFields ==
    {"label", "center", "num_points", "bbox_min", "bbox_max", "num_obs",
     "first_frame_idx", "position", "size"}

\* An object of an uploaded map that has every required field.
MapObject(label, center) ==
    [label |-> label, center |-> center, num_points |-> 2,
     bbox_min |-> center, bbox_max |-> center, num_obs |-> 1,
     first_frame_idx |-> 0, position |-> center, size |-> <<0, 0, 0>>]

\* The object maps a client uploads: one whose object has a first_frame_path,
\* one whose object has none, one whose object lacks a required field, and
\* the empty map.
SpatialMaps ==
    { << [key |-> "chair_0",
          value |-> MapObject(Chair, <<1000, 0, 2000>>)
                        @@ ("first_frame_path" :> FramePath)] >>,
      << [key |-> "chair_0",
          value |-> MapObject(Chair, <<-500, 0, 1500>>)] >>,
      << [key |-> "worker_1",
          value |-> [label |-> CvLabels.worker, center |-> <<0, 0, 1000>>]] >>,
      <<>> }

\* obj_data.get(field): the value, or None.
OptionalField(obj_data, field) ==
    IF field \in DOMAIN obj_data THEN Some(obj_data[field]) ELSE None

\* ObjectAnnotation(key=key, ...) of an object with every required field.
ObjectAnnotation(key, obj_data) ==
    [key |-> key,
     label |-> obj_data.label,
     center |-> obj_data.center,
     num_points |-> obj_data.num_points,
     bbox_min |-> obj_data.bbox_min,
     bbox_max |-> obj_data.bbox_max,
     num_obs |-> obj_data.num_obs,
     first_frame_idx |-> obj_data.first_frame_idx,
     first_bbox |-> OptionalField(obj_data, "first_bbox"),
     first_frame_path |-> OptionalField(obj_data, "first_frame_path"),
     position |-> obj_data.position,
     size |-> obj_data.size]

\* The validation loop of upload_spatial_map from position k on:
\* validated_objects and objects_by_label.
RECURSIVE ValidateLoop(_, _, _, _)
ValidateLoop(uploaded, k, validated_objects, objects_by_label) ==
    IF k > Len(uploaded)
    THEN [validated_objects |-> validated_objects,
          objects_by_label |-> objects_by_label]
    ELSE LET key == uploaded[k].key
             obj_data == uploaded[k].value
         IN  IF ~(RequiredFields \subseteq DOMAIN obj_data)
             THEN ValidateLoop(uploaded, k + 1, validated_objects,
                               objects_by_label)
             ELSE ValidateLoop(uploaded, k + 1,
                    DictSet(validated_objects, key, ObjectAnnotation(key, obj_data)),
                    DictSet(objects_by_label, obj_data.label,
                            (IF DictHas(objects_by_label, obj_data.label)
                             THEN DictGet(objects_by_label, obj_data.label)
                             ELSE 0) + 1))

\* The session id upload_spatial_map stores a map under.
UploadSessionId(validated_objects) ==
    IF /\ validated_objects # <<>>
       /\ Truthy(validated_objects[1].value.first_frame_path)
    THEN "session_" \o Md5Hex12(validated_objects[1].value.first_frame_path.some)
    ELSE "default_session"

\* upload_spatial_map(uploaded): the response and the store afterwards.
upload_spatial_map(st, uploaded) ==
    IF uploaded = <<>>
    THEN [response |-> HTTPException(400, "Object map cannot be empty"),
          store |-> st]
    ELSE LET v == ValidateLoop(uploaded, 1, <<>>, <<>>)
             session_id == UploadSessionId(v.validated_objects)
             total == Len(v.validated_objects)
         IN  [response |-> Ok([object_map |-> v.validated_objects,
                               total_objects |-> total,
                               objects_by_label |-> v.objects_by_label]),
              store |-> store_spatial_context(st, session_id,
                  << [key |-> "spatial_map", value |-> v.validated_objects],
                     [key |-> "objects_by_label", value |-> v.objects_by_label],
                     [key |-> "total_objects", value |-> total] >>)]

\* POST /api/slam/spatial-map
UploadSpatialMap ==
    /\ chat.pc = "idle"
    /\ \E uploaded \in SpatialMaps :
        LET r == upload_spatial_map(store, uploaded)
        IN  /\ http' = Respond("spatial-map", uploaded, r.response)
            /\ store' = r.store
    /\ UNCHANGED <<chat, pipeline, call>>

\* ------------------------------------------------------------ chat tools
\* The entries of all_objects for the frames of the CV pipeline from k on.
RECURSIVE ListedInFrames(_, _)
ListedInFrames(frames, k) ==
    IF k > Len(frames) THEN <<>>
    ELSE [j \in 1..Len(frames[k].objects) |->
            [frame_number |-> frames[k].frame_number,
             time |-> frames[k].time,
             object_id |-> frames[k].objects[j].id,
             label |-> frames[k].objects[j].label,
             coordinates |-> frames[k].objects[j].xyz_coordinates,
             depth |-> frames[k].objects[j].depth,
             source |-> "cv_pipeline"]]
         \o ListedInFrames(frames, k + 1)

\* execute_list_all_objects(session_context); unique_objects, a list made of
\* a set, is kept as the set, and the message text is left out.
execute_list_all_objects(session_context) ==
    LET spatial_map == IF DictHas(session_context, "spatial_map")
                       THEN DictGet(session_context, "spatial_map") ELSE <<>>
        in_map == [k \in 1..Len(spatial_map) |->
            [object_key |-> spatial_map[k].key,
             label |-> spatial_map[k].value.label,
             coordinates |-> [x |-> spatial_map[k].value.center[1],
                              y |-> spatial_map[k].value.center[2],
                              z |-> spatial_map[k].value.center[3]],
             first_frame |-> spatial_map[k].value.first_frame_idx,
             num_observations |-> spatial_map[k].value.num_obs,
             source |-> "spatial_map"]]
        all_objects == in_map \o ListedInFrames(CV_PIPELINE_DATA.frames, 1)
        unique_labels == {all_objects[k].label : k \in 1..Len(all_objects)}
    IN  [objects |-> all_objects,
         unique_objects |-> unique_labels,
         total_detections |-> Len(all_objects),
         unique_count |-> Cardinality(unique_labels)]

\* execute_tool(tool_name, tool_input, session_context)
execute_tool(tool_name, tool_input, session_context) ==
    IF tool_name = "get_object_location"
    THEN execute_get_object_location(tool_input.object_class, session_context)
    ELSE IF tool_name = "list_all_objects"
    THEN execute_list_all_objects(session_context)
    ELSE [error |-> "Unknown tool"]

\* ------------------------------------------------------- POST /api/llm/chat
\* The most responses the model client returns in one chat request.
MaxResponses == 3

TextBlock(text) == [type |-> "text", text |-> text]
ToolUseBlock(id, name, input) ==
    [type |-> "tool_use", id |-> id, name |-> name, input |-> input]

\* A response of the model that ends the conversation.
FinalResponses ==
    { [content |-> <<TextBlock("The chair is ahead.")>>,
       stop_reason |-> "end_turn"] }

\* The responses claude_client.messages.create can return: final text, one
\* tool call after some text, two tool calls in one response, and a call of
\* a tool that does not exist.
Responses ==
    FinalResponses \cup
    { [content |-> << TextBlock("Let me look."),
                      ToolUseBlock("toolu_a", "get_object_location",
                                   [object_class |-> Chair]) >>,
       stop_reason |-> "tool_use"],
      [content |-> << ToolUseBlock("toolu_b", "list_all_objects", <<>>),
                      ToolUseBlock("toolu_c", "get_object_location",
                                   [object_class |-> CvLabels.hard_hat]) >>,
       stop_reason |-> "tool_use"],
      [content |-> << ToolUseBlock("toolu_d", "remove_object",
                                   [object_class |-> Chair]) >>,
       stop_reason |-> "tool_use"] }

\* The identifiers a chat request carries.
RequestIds == {"e67603deb3d7", "default_session", "default", ""}

\* The LLMChatRequest bodies a client sends: no identifier, a video_id, a
\* userId, or both.
ChatRequests ==
    {[message |-> "Where is the chair?", video_id |-> ids[1], userId |-> ids[2]] :
        ids \in {None} \X ({None} \cup {Some(x) : x \in RequestIds})
            \cup ({Some(x) : x \in RequestIds} \X {None})
            \cup {<<Some("default"), Some("default_session")>>}}

\* chat_with_llm up to the first call of the model: the session is resolved,
\* the conversation is built, and the first response arrives.
ChatBegin ==
    /\ chat.pc = "idle"
    /\ \E request \in ChatRequests, now \in Timestamps, r \in Responses :
        LET session_id == get_or_create_session_id(request.video_id,
                                                   request.userId, now)
            session_context == get_spatial_context(store, session_id)
            content ==
                IF DictHas(session_context, "spatial_map")
                THEN <<request.message,
                       DictKeys(DictGet(session_context, "spatial_map"))>>
                ELSE <<request.message>>
        IN  /\ chat' = [pc |-> "while",
                        session_id |-> session_id,
                        session_context |-> session_context,
                        messages |-> <<[role |-> "user", content |-> content]>>,
                        tool_calls_made |-> <<>>,
                        objects_found |-> <<>>,
                        response |-> r,
                        blocks |-> <<>>,
                        received |-> <<r>>]
            /\ http' = [endpoint |-> "chat", request |-> request,
                        status |-> 0, body |-> None]
    /\ UNCHANGED <<store, pipeline, call>>

\* `while response.stop_reason == "tool_use"` holds: the for loop starts over
\* the content of the response of this moment.
ChatWhile ==
    /\ chat.pc = "while"
    /\ chat.response.stop_reason = "tool_use"
    /\ chat' = [chat EXCEPT !.pc = "for", !.blocks = chat.response.content]
    /\ UNCHANGED <<store, http, pipeline, call>>

\* objects_found after a tool result.
ObjectsFound(objects_found, tool_result) ==
    IF "objects" \in DOMAIN tool_result /\ tool_result.objects # <<>>
    THEN objects_found \o tool_result.objects
    ELSE objects_found

\* A tool_use block of the for loop: the tool runs, the call is recorded, the
\* response of this moment and the tool result are appended to the
\* conversation, and the next response replaces `response`.
ChatToolUse ==
    /\ chat.pc = "for"
    /\ chat.blocks # <<>>
    /\ Head(chat.blocks).type = "tool_use"
    /\ \E r \in IF Len(chat.received) + 1 < MaxResponses
                THEN Responses ELSE FinalResponses :
        LET content_block == Head(chat.blocks)
            tool_result == execute_tool(content_block.name, content_block.input,
                                        chat.session_context)
        IN  chat' = [chat EXCEPT
                !.tool_calls_made = Append(@,
                    [name |-> content_block.name,
                     parameters |-> content_block.input,
                     result |-> tool_result]),
                !.objects_found = ObjectsFound(@, tool_result),
                !.messages = @ \o
                    << [role |-> "assistant", content |-> chat.response.content],
                       [role |-> "user",
                        content |-> <<[type |-> "tool_result",
                                       tool_use_id |-> content_block.id,
                                       content |-> tool_result]>>] >>,
                !.response = r,
                !.received = Append(@, r),
                !.blocks = Tail(@)]
    /\ UNCHANGED <<store, http, pipeline, call>>

\* A block of the for loop that is not a tool_use block.
ChatSkipBlock ==
    /\ chat.pc = "for"
    /\ chat.blocks # <<>>
    /\ Head(chat.blocks).type # "tool_use"
    /\ chat' = [chat EXCEPT !.blocks = Tail(@)]
    /\ UNCHANGED <<store, http, pipeline, call>>

\* The for loop is exhausted: back to the test of the while loop.
ChatForEnd ==
    /\ chat.pc = "for"
    /\ chat.blocks = <<>>
    /\ chat' = [chat EXCEPT !.pc = "while"]
    /\ UNCHANGED <<store, http, pipeline, call>>

\* final_text: the texts of the blocks of a response that have one.
RECURSIVE FinalText(_, _)
FinalText(content, k) ==
    IF k > Len(content) THEN ""
    ELSE (IF "text" \in DOMAIN content[k] THEN content[k].text ELSE "")
         \o FinalText(content, k + 1)

\* toolCalls=tool_calls_made if tool_calls_made else None
ListOrNone(list) == IF list # <<>> THEN Some(list) ELSE None

\* The while loop ends: the LLMChatResponse is returned.
ChatReturn ==
    /\ chat.pc = "while"
    /\ chat.response.stop_reason # "tool_use"
    /\ http' = [http EXCEPT
            !.status = 200,
            !.body = [response |-> FinalText(chat.response.content, 1),
                      toolCalls |-> ListOrNone(chat.tool_calls_made),
                      objects |-> ListOrNone(chat.objects_found)]]
    /\ chat' = ChatIdle
    /\ UNCHANGED <<store, pipeline, call>>


\* ---------------------------------------------------------- the service
\* POST /api/slam/map-points
UploadMapPoints ==
    /\ chat.pc = "idle"
    /\ \E data \in MapPointsPayloads :
        http' = Respond("map-points", data, upload_map_points(data))
    /\ UNCHANGED <<store, chat, pipeline, call>>

\* GET /api/objects/last_location?object_class=...
GetObjectLastLocation ==
    /\ chat.pc = "idle"
    /\ \E object_class \in ObjectClasses :
        http' = Respond("last_location", [object_class |-> object_class],
                        get_object_last_location(object_class))
    /\ UNCHANGED <<store, chat, pipeline, call>>

\* The backend runs apart from the mapping pipeline, which stays as built.
InitApi ==
    /\ tracks = <<>>
    /\ next_track_id = 0
    /\ track_to_indices = <<>>
    /\ i = 0
    /\ pc = "frame"
    /\ T_cw = NoPose
    /\ dets_left = 0
    /\ thresholds = DefaultConfig
    /\ detector = "scene"
    /\ n_assoc = 0
    /\ last = [op |-> "init", det |-> NoDet, idx |-> {}, center |-> <<>>,
               tid |-> -1, frame |-> 0]
    /\ n_poses = NFrames
    /\ n_images = NFrames
    /\ cloud = "room"
    /\ NothingBuilt
    /\ BackendIdle
    /\ call = NoCall

NextApi ==
    \/ UploadMapPoints
    \/ GetObjectLastLocation
    \/ UploadSpatialMap
    \/ ChatBegin
    \/ ChatWhile
    \/ ChatToolUse
    \/ ChatSkipBlock
    \/ ChatForEnd
    \/ ChatReturn

SpecApi == InitApi /\ [][NextApi]_vars


\* ================================================================= claims
\* What a step of the detection loop did, read off a transition.
AssocStep == n_assoc' = n_assoc + 1
NewStep == AssocStep /\ Len(tracks') = Len(tracks) + 1
UpdateStep == AssocStep /\ Len(tracks') = Len(tracks)
\* The position of the track an update step changed.
Updated == CHOOSE m \in 1..Len(tracks) : tracks'[m] # tracks[m]

\* The detection a step of the detection loop handled, its map points and
\* their centroid, computed from the pose of the frame being processed.
DetOf == last'.det
IdxOf == mask_points_in_detection(Projection[T_cw], ValidIdx(Projection[T_cw]), DetOf)
CenterOf == Centroid(map_pts, IdxOf)
DetStep == pc = "dets" /\ dets_left' = dets_left - 1

\* The tracks (positions) that survive the three gates for a detection.
Survivors(det, center_3d) ==
    {k \in 1..Len(tracks) :
        /\ NormLabel(tracks[k].label) = NormLabel(det.label)
        /\ cosine_similarity(det.feat, tracks[k].feat) >= thresholds.cos
        /\ Distance(center_3d, tracks[k].center_3d) <= thresholds.dist}

\* score = sim - 0.01 * dist of a track for a detection, in 1/100000.
ScoreOf(det, center_3d, k) ==
    100 * cosine_similarity(det.feat, tracks[k].feat)
        - Distance(center_3d, tracks[k].center_3d)

\* C1 as stated: a detection is merged only into a track whose label equals
\* its own label under case-insensitive exact comparison.
C1_MergeSameLabelIgnoringCase ==
    [][UpdateStep => Lower(tracks[Updated].label) = Lower(DetOf.label)]_vars

\* C1 amended: a detection is merged only into a track whose label equals its
\* own label after both are stripped of surrounding whitespace and lower-cased;
\* detections whose labels differ under that comparison never share a track.
C1_MergeSameNormalizedLabel ==
    [][UpdateStep =>
        NormLabel(tracks[Updated].label) = NormLabel(DetOf.label)]_vars

\* A detection was merged into a track whose raw label is spelled differently,
\* next to a track of another label at the same place with the same embedding.
C1_Witness ==
    /\ last.op = "update"
    /\ tracks[last.tid + 1].label # last.det.label
    /\ \E k \in 1..Len(tracks) :
        /\ NormLabel(tracks[k].label) # NormLabel(last.det.label)
        /\ tracks[k].point_indices = last.idx

\* The similarity a call of match_to_tracks computes for the track at
\* position k, and its cos_thresh, both in 1/ScoreUnit.
CallSim(k) == SimOf(call.detection.feat, call.tracks[k].feat, call.dtype)
CallCosThresh == call.cos_thresh * (ScoreUnit \div Milli)

\* The tracks (positions) of a call of match_to_tracks that survive its
\* three gates.
CallSurvivors ==
    {k \in 1..Len(call.tracks) :
        /\ NormLabel(call.tracks[k].label) = NormLabel(call.detection.label)
        /\ CallSim(k) >= CallCosThresh
        /\ Distance(call.center_3d, call.tracks[k].center_3d)
              <= call.dist_thresh}

\* C2 as stated: for every cos_thresh and dist_thresh, match_to_tracks
\* returns no track (and the detection creates a new track) if and only if no
\* track survives the three gates; when one survives it returns a track (and
\* the detection updates it, the number of tracks unchanged).
C2_NewTrackIffNoSurvivor ==
    [][MatchToTracks => (call'.matched = 0 <=> CallSurvivors = {})]_vars

\* C3: the track an update selects has the maximum score among the survivors
\* of the three gates, and the smallest id among those with that score.
C3_MaxScoreEarliestWins ==
    [][UpdateStep =>
        LET det == DetOf
            c == CenterOf
            m == Updated
        IN  /\ m \in Survivors(det, c)
            /\ \A k \in Survivors(det, c) :
                /\ ScoreOf(det, c, k) <= ScoreOf(det, c, m)
                /\ ScoreOf(det, c, k) = ScoreOf(det, c, m)
                      => tracks[m].id <= tracks[k].id]_vars

\* A detection midway between two tracks of its label and embedding was
\* merged into the first one: both survive the gates with the same score.
C3_Witness ==
    /\ thresholds = DefaultConfig
    /\ last.op = "update"
    /\ last.tid = 0
    /\ last.center = <<1380, 0, 3450>>
    /\ last.det.feat = FeatA
    /\ Len(tracks) = 2
    /\ tracks[1].num_obs = 2
    /\ tracks[1].point_indices = {0, 1, 2}
    /\ tracks[1].feat = FeatA
    /\ tracks[2].center_3d = <<3180, 0, 5850>>
    /\ tracks[2].feat = FeatA
    /\ tracks[2].label = tracks[1].label

\* C4: a detection farther than dist_thresh from every track of its label
\* creates a new track.
C4_FarDetectionCreatesTrack ==
    [][(/\ AssocStep
        /\ \A k \in 1..Len(tracks) :
              NormLabel(tracks[k].label) = NormLabel(DetOf.label)
                  => Distance(CenterOf, tracks[k].center_3d) > thresholds.dist)
        => NewStep]_vars

\* A new track was created although a track of the same label has exactly the
\* detection's embedding (similarity 1.0) and is farther than dist_thresh.
C4_Witness ==
    /\ last.op = "new"
    /\ \E k \in 1..Len(tracks) :
        /\ tracks[k].id # last.tid
        /\ NormLabel(tracks[k].label) = NormLabel(last.det.label)
        /\ tracks[k].feat = last.det.feat
        /\ cosine_similarity(last.det.feat, tracks[k].feat) = Milli
        /\ Distance(last.center, tracks[k].center_3d) > thresholds.dist

\* C5: a matched update changes exactly one track: num_obs grows by 1, the
\* centroid becomes (1 - alpha) old + alpha c with alpha = 1 / (num_obs before
\* + 1), that is (n old + c) / (n + 1), last_seen becomes the frame index, and
\* every other track is as before.
C5_UpdateChangesOneTrack ==
    [][UpdateStep =>
        LET m == Updated
            n == tracks[m].num_obs
        IN  /\ tracks'[m].num_obs = n + 1
            /\ tracks'[m].center_3d =
                  [j \in 1..3 |->
                      RDiv(n * tracks[m].center_3d[j] + CenterOf[j], n + 1)]
            /\ tracks'[m].last_seen = i
            /\ \A k \in 1..Len(tracks) : k # m => tracks'[k] = tracks[k]]_vars

\* A track seen once was updated in a later frame by a detection elsewhere
\* (alpha = 0.5: its centroid is now between the two), another track exists.
C5_Witness ==
    /\ last.op = "update"
    /\ Len(tracks) >= 2
    /\ LET t == tracks[last.tid + 1]
       IN  /\ t.num_obs = 2
           /\ t.last_seen > t.first_frame_idx
           /\ t.center_3d # last.center
           /\ \E j \in 1..3 : Abs(t.center_3d[j] - last.center[j]) > 100

\* C6: the point set of a track only grows: every step leaves each track a
\* superset of its points, and a matched update leaves exactly old \cup new.
C6_PointSetOnlyGrows ==
    [][/\ Len(tracks') >= Len(tracks)
       /\ \A k \in 1..Len(tracks) :
            tracks[k].point_indices \subseteq tracks'[k].point_indices
       /\ UpdateStep =>
            tracks'[Updated].point_indices =
                tracks[Updated].point_indices \cup IdxOf]_vars

\* An update added points to a track that already had points the detection
\* does not have.
C6_Witness ==
    /\ last.op = "update"
    /\ last.idx # {}
    /\ last.idx \subseteq tracks[last.tid + 1].point_indices
    /\ tracks[last.tid + 1].point_indices \ last.idx # {}
    /\ Cardinality(tracks[last.tid + 1].point_indices) >= 3

\* C7: the tracks carry the ids 0..n-1 in creation order, next_track_id is
\* the number of tracks, and a new track has num_obs = 1, the detection's
\* label, centroid, embedding and points, and an id above every earlier id.
C7_NewTrackAndIds ==
    [][/\ \A k \in 1..Len(tracks') : tracks'[k].id = k - 1
       /\ next_track_id' = Len(tracks')
       /\ NewStep =>
            LET t == tracks'[Len(tracks')]
            IN  /\ SubSeq(tracks', 1, Len(tracks)) = tracks
                /\ t.num_obs = 1
                /\ t.label = DetOf.label
                /\ t.center_3d = CenterOf
                /\ t.feat = DetOf.feat
                /\ t.point_indices = IdxOf
                /\ \A k \in 1..Len(tracks) : t.id > tracks[k].id]_vars

\* A second track was created after the first track had been updated.
C7_Witness ==
    /\ last.op = "new"
    /\ last.tid = 1
    /\ Len(tracks) = 2
    /\ tracks[1].num_obs = 2
    /\ tracks[2].num_obs = 1
    /\ tracks[2].point_indices = last.idx

\* C8: the id, the label and the first-detection snapshot of a track never
\* change.
C8_IdentityAndSnapshotFixed ==
    [][\A k \in 1..Len(tracks) :
        /\ tracks'[k].id = tracks[k].id
        /\ tracks'[k].label = tracks[k].label
        /\ tracks'[k].first_frame_idx = tracks[k].first_frame_idx
        /\ tracks'[k].first_bbox = tracks[k].first_bbox
        /\ tracks'[k].first_frame_path = tracks[k].first_frame_path]_vars

\* A track was updated by a detection of another spelling, box and frame.
C8_Witness ==
    /\ last.op = "update"
    /\ LET t == tracks[last.tid + 1]
       IN  /\ t.label # last.det.label
           /\ t.first_bbox # last.det.bbox
           /\ t.first_frame_idx # last.frame
           /\ t.first_frame_path # ImgPath(last.frame)

\* C9: a detection with no map points changes no track, no id counter and no
\* index set, and the loop goes on to the next detection or the next frame.
C9_EmptyDetectionIsNoOp ==
    [][(DetStep /\ IdxOf = {}) =>
        /\ tracks' = tracks
        /\ next_track_id' = next_track_id
        /\ track_to_indices' = track_to_indices
        /\ n_assoc' = n_assoc
        /\ dets_left > 1 => (pc' = "dets" /\ i' = i /\ T_cw' = T_cw)
        /\ dets_left = 1 => (pc' = "frame" /\ i' = i + 1)]_vars

\* A detection with no map points was skipped in a run that has a track, and
\* the frame has a detection left.
C9_Witness ==
    /\ last.op = "skip"
    /\ last.idx = {}
    /\ last.det.score >= MinScore
    /\ Len(tracks) >= 1
    /\ pc = "dets"
    /\ dets_left >= 1

\* A box of no width or no height.
DegenerateBox(bbox) == bbox[3] <= bbox[1] \/ bbox[4] <= bbox[2]

\* C10: a detection with a degenerate box that reaches the detection loop
\* changes no track.
C10_MalformedDetectionSkipped ==
    [][(DetStep /\ DegenerateBox(DetOf.bbox)) =>
        /\ tracks' = tracks
        /\ next_track_id' = next_track_id
        /\ track_to_indices' = track_to_indices]_vars

\* C11: when the point cloud is empty or the pose count differs from the
\* image count, the run stops before the frame loop: no track is created and
\* no object map is built or saved.
C11_StructuralErrorsAreFatal ==
    (cloud = "empty" \/ n_poses # n_images) =>
        /\ tracks = <<>>
        /\ npy_file = NoFile

\* The position of the track a record was made from, and a record's points.
TrackOfRecord(j) ==
    CHOOSE k \in 1..Len(tracks) :
        object_map[j].key = tracks[k].label \o <<"_">> \o Str(tracks[k].id)
PointSetOf(rec) == {rec.indices[k] : k \in 1..Len(rec.indices)}
Finalized == pc \in {"done", "loaded"}

\* C12: the final map holds exactly one record for every track with points,
\* under the key label_id, none for a track without points, no two records
\* under the same key, and each record carries its track's label, num_obs
\* and first-detection snapshot.
C12_OneRecordPerTrack ==
    Finalized =>
        /\ Len(object_map) =
              Cardinality({k \in 1..Len(tracks) : tracks[k].point_indices # {}})
        /\ \A j1, j2 \in 1..Len(object_map) :
              j1 # j2 => object_map[j1].key # object_map[j2].key
        /\ \A k \in 1..Len(tracks) :
              LET tr   == tracks[k]
                  key  == tr.label \o <<"_">> \o Str(tr.id)
                  hits == {j \in 1..Len(object_map) : object_map[j].key = key}
              IN  IF tr.point_indices = {} THEN hits = {}
                  ELSE /\ Cardinality(hits) = 1
                       /\ \A j \in hits :
                            LET rec == object_map[j].value
                            IN  /\ rec.label = tr.label
                                /\ rec.num_obs = tr.num_obs
                                /\ rec.first_frame_idx = tr.first_frame_idx
                                /\ rec.first_bbox = tr.first_bbox
                                /\ rec.first_frame_path = tr.first_frame_path

\* The final map of a run with two tracks of the same label, one of them
\* observed more than once: their keys differ only in the id.
C12_Witness ==
    /\ pc = "done"
    /\ Len(object_map) = Len(tracks)
    /\ \E k1, k2 \in 1..Len(tracks) :
        /\ k1 # k2
        /\ tracks[k1].label = tracks[k2].label
        /\ tracks[k1].num_obs >= 2

\* C13: center, bbox_min, bbox_max, size and num_points of a record are
\* computed from the record's points, which are the final point set of its
\* track: center is their mean, num_points their number, bbox_min and
\* bbox_max their extremes on every axis, size the difference; records with
\* the same point set have the same values.
C13_GeometryFromPointSet ==
    Finalized =>
        /\ \A j \in 1..Len(object_map) :
              LET rec == object_map[j].value
                  S   == PointSetOf(rec)
              IN  /\ S = tracks[TrackOfRecord(j)].point_indices
                  /\ rec.num_points = Cardinality(S)
                  /\ Len(rec.indices) = Cardinality(S)
                  /\ rec.center = Centroid(map_pts, S)
                  /\ \A ax \in 1..3 :
                        /\ \A q \in S : /\ rec.bbox_min[ax] <= map_pts[q][ax]
                                        /\ rec.bbox_max[ax] >= map_pts[q][ax]
                        /\ \E q \in S : rec.bbox_min[ax] = map_pts[q][ax]
                        /\ \E q \in S : rec.bbox_max[ax] = map_pts[q][ax]
                        /\ rec.size[ax] = rec.bbox_max[ax] - rec.bbox_min[ax]
        /\ \A j1, j2 \in 1..Len(object_map) :
              LET r1 == object_map[j1].value
                  r2 == object_map[j2].value
              IN  PointSetOf(r1) = PointSetOf(r2) =>
                    /\ r1.center = r2.center
                    /\ r1.bbox_min = r2.bbox_min
                    /\ r1.bbox_max = r2.bbox_max
                    /\ r1.size = r2.size
                    /\ r1.num_points = r2.num_points

\* Two records with the same three points whose tracks were observed a
\* different number of times and ended with different running centroids.
C13_Witness ==
    /\ pc = "done"
    /\ \E j1, j2 \in 1..Len(object_map) :
        /\ j1 # j2
        /\ PointSetOf(object_map[j1].value) = PointSetOf(object_map[j2].value)
        /\ object_map[j1].value.num_points = 3
        /\ object_map[j1].value.num_obs # object_map[j2].value.num_obs
        /\ tracks[TrackOfRecord(j1)].center_3d # tracks[TrackOfRecord(j2)].center_3d
        /\ tracks[TrackOfRecord(j1)].center_3d # object_map[j1].value.center

\* C14 as stated: get_object_info on a key that is not in the map fails with
\* an error and returns nothing; on a key of the map it returns the record.
C14_LookupUnknownKeyFails ==
    result.op = "get_object_info" =>
        IF DictHas(objects, result.args[1])
        THEN /\ result.raised = NoError
             /\ result.value = DictGet(objects, result.args[1])
        ELSE result.raised # NoError

\* C15: distance_between_objects raises its not-found error when either key
\* is absent, and otherwise returns the Euclidean distance of the two
\* centers: symmetric, 0 for the same key, 5 for (0,0,0) and (3,4,0).
C15_DistanceOrNotFound ==
    /\ Distance(<<0, 0, 0>>, <<3 * Milli, 4 * Milli, 0>>) = 5 * Milli
    /\ result.op = "distance_between_objects" =>
        LET key1 == result.args[1]
            key2 == result.args[2]
        IN  IF ~DictHas(objects, key1) \/ ~DictHas(objects, key2)
            THEN result.raised = "ValueError"
            ELSE LET c1 == DictGet(objects, key1).center
                     c2 == DictGet(objects, key2).center
                 IN  /\ result.raised = NoError
                     /\ result.value =
                          Sqrt((c1[1] - c2[1]) * (c1[1] - c2[1])
                             + (c1[2] - c2[2]) * (c1[2] - c2[2])
                             + (c1[3] - c2[3]) * (c1[3] - c2[3]))
                     /\ result.value = Distance(c2, c1)
                     /\ key1 = key2 => result.value = 0

\* The distance was asked between a key of a map of two objects and a key
\* that is not in the map.
C15_Witness ==
    /\ result.op = "distance_between_objects"
    /\ result.raised = "ValueError"
    /\ Len(objects) = 2
    /\ DictHas(objects, result.args[1])
    /\ ~DictHas(objects, result.args[2])

\* C16: get_object_by_label returns, without error and without repetition,
\* exactly the keys whose record label equals the argument when both are
\* lower-cased; for a label no record has that is the empty list.
C16_ByLabelIgnoringCase ==
    result.op = "get_object_by_label" =>
        /\ result.raised = NoError
        /\ {result.value[k] : k \in 1..Len(result.value)} =
              {objects[j].key : j \in {j \in 1..Len(objects) :
                    Lower(objects[j].value.label) = Lower(result.args[1])}}
        /\ Cardinality({result.value[k] : k \in 1..Len(result.value)})
              = Len(result.value)

\* A label was asked in another spelling than the record's, in a map that
\* also holds an object of another label: only the first key came back.
C16_Witness ==
    /\ result.op = "get_object_by_label"
    /\ Len(objects) = 2
    /\ Len(result.value) = 1
    /\ DictGet(objects, result.value[1]).label # result.args[1]

\* C17: no query changes the loaded objects, the object map or its file,
\* whether it returns or raises.
C17_QueriesChangeNothing ==
    [][pc = "loaded" =>
        /\ objects' = objects
        /\ object_map' = object_map
        /\ npy_file' = npy_file]_vars

\* A lookup of a key that is not in a map of two objects has returned.
C17_Witness ==
    /\ pc = "loaded"
    /\ result.op = "get_object_info"
    /\ Len(objects) = 2
    /\ result.args[1] \notin {object_map[j].key : j \in 1..Len(object_map)}

\* C18: a frame without detections changes no track, no track id counter
\* and no index set.
C18_EmptyFrameChangesNoTrack ==
    [][(i' = i + 1 /\ last'.op = "no_detections") =>
        /\ tracks' = tracks
        /\ next_track_id' = next_track_id
        /\ track_to_indices' = track_to_indices]_vars

\* A frame without detections followed a frame that created a track and
\* updated it.
C18_Witness ==
    /\ last.op = "no_detections"
    /\ last.frame >= 1
    /\ \E k \in 1..Len(tracks) : tracks[k].num_obs >= 2

\* The fields of an ObjectRecord.
RecordFields ==
    {"label", "center", "size", "point_cloud", "bbox_min", "bbox_max",
     "num_points", "num_obs", "first_frame_idx", "first_bbox", "first_frame_path"}

\* C19: the query layer loaded from the saved file has the keys of the final
\* object map, in the same order, and under every key every field of the
\* record with the value it had when it was saved.
C19_SaveLoadRoundTrip ==
    pc = "loaded" =>
        /\ DictKeys(objects) = DictKeys(object_map)
        /\ \A j \in 1..Len(object_map) : \A f \in RecordFields :
              objects[j].value[f] = object_map[j].value[f]

\* A map of two objects, one of three points seen twice, was reloaded.
C19_Witness ==
    /\ pc = "loaded"
    /\ Len(objects) = 2
    /\ \E j \in 1..Len(objects) :
        /\ objects[j].value.num_obs = 2
        /\ Len(objects[j].value.point_cloud) = 3

\* The camera-frame coordinates of map point k in the frame being processed.
CamOf(k) == CamPoint(T_cw.R, T_cw.t, map_pts[k])

\* depth > 0.1, depth < MAX_DEPTH and the pixel inside the image, for a point
\* of positive depth z: 0 <= fx x / z + cx < W and 0 <= fy y / z + cy < H.
InView(X_c) ==
    /\ X_c[3] > MinDepth
    /\ X_c[3] < MAX_DEPTH
    /\ FX * X_c[1] + CX * X_c[3] >= 0
    /\ FX * X_c[1] + CX * X_c[3] < IMG_W * X_c[3]
    /\ FY * X_c[2] + CY * X_c[3] >= 0
    /\ FY * X_c[2] + CY * X_c[3] < IMG_H * X_c[3]

\* C20: in a frame that reaches the detection loop, a map point is used for
\* assignment exactly if its depth is above 0.1 m and below MAX_DEPTH and its
\* pixel is inside the image; a point of zero depth gets the denominator
\* 1e-6 and is not used, a point behind the camera is not used, and every
\* point assigned to a detection is one of the points used.
C20_ValidProjection ==
    pc = "dets" =>
        /\ \A k \in DOMAIN map_pts :
              /\ k \in ValidIdx(Projection[T_cw]) <=> InView(CamOf(k))
              /\ CamOf(k)[3] = 0 =>
                    /\ Projection[T_cw][k].z_safe = <<1, Milli>>
                    /\ ~Projection[T_cw][k].valid
              /\ CamOf(k)[3] < 0 => ~Projection[T_cw][k].valid
        /\ last.idx \subseteq ValidIdx(Projection[T_cw])

\* A detection was assigned points in a frame in which other map points are
\* at zero depth, behind the camera, exactly at MAX_DEPTH and off the image.
C20_Witness ==
    /\ pc = "dets"
    /\ last.op = "new"
    /\ last.idx # {}
    /\ \E k \in DOMAIN map_pts : CamOf(k)[3] = 0
    /\ \E k \in DOMAIN map_pts : CamOf(k)[3] < 0
    /\ \E k \in DOMAIN map_pts : CamOf(k)[3] = MAX_DEPTH
    /\ \E k \in DOMAIN map_pts :
          /\ CamOf(k)[3] > MinDepth
          /\ CamOf(k)[3] < MAX_DEPTH
          /\ ~InView(CamOf(k))

\* The pixel of a point of positive depth z lies inside a bounding box, edges
\* included: u1 <= fx x / z + cx <= u2 and v1 <= fy y / z + cy <= v2.
InBox(X_c, bbox) ==
    /\ FX * X_c[1] + CX * X_c[3] >= bbox[1] * X_c[3]
    /\ FX * X_c[1] + CX * X_c[3] <= bbox[3] * X_c[3]
    /\ FY * X_c[2] + CY * X_c[3] >= bbox[2] * X_c[3]
    /\ FY * X_c[2] + CY * X_c[3] <= bbox[4] * X_c[3]

\* The map points in view of some pose a frame can have.
EverInView ==
    {k \in DOMAIN map_pts :
        \E pose \in Poses : InView(CamPoint(pose.R, pose.t, map_pts[k]))}

\* The map points in view of a pose whose pixel lies inside the box of a
\* detection, for every pose and every detection.
InViewInBox ==
    [pose \in Poses |-> [det \in vlm_detect_and_segment(AllOutputs) |->
        {k \in DOMAIN map_pts :
            /\ InView(CamPoint(pose.R, pose.t, map_pts[k]))
            /\ InBox(CamPoint(pose.R, pose.t, map_pts[k]), det.bbox)}]]

\* C21: the points assigned to a detection are exactly the map points that
\* project validly in its frame and whose pixel lies inside its bounding box
\* (no detection carries a mask); so every point index stored in a track is
\* an index of the point cloud and projected validly in some frame.
C21_AssignedPointsAreValid ==
    [][/\ DetStep => last'.idx = InViewInBox[T_cw][DetOf]
       /\ \A k \in 1..Len(tracks') :
            /\ tracks'[k].point_indices \subseteq DOMAIN map_pts
            /\ tracks'[k].point_indices \subseteq EverInView]_vars

\* While tracks hold points, a detection whose box covers the pixels of map
\* points that do not project validly was assigned no point.
C21_Witness ==
    /\ pc = "dets"
    /\ last.op = "skip"
    /\ last.idx = {}
    /\ \E k \in DOMAIN map_pts :
          /\ ~InView(CamOf(k))
          /\ CamOf(k)[3] > 0
          /\ InBox(CamOf(k), last.det.bbox)
    /\ \E k \in 1..Len(tracks) : Cardinality(tracks[k].point_indices) >= 2


\* C24 as stated: both gates are inclusive at their thresholds: when a track
\* of the detection's label has a similarity exactly equal to cos_thresh and a
\* distance exactly equal to dist_thresh, match_to_tracks returns a track (the
\* detection is merged), and that track when it is the only one that passes
\* the gates.
C24_GatesInclusiveAtThreshold ==
    [][MatchToTracks =>
        \A k \in 1..Len(call.tracks) :
            (/\ NormLabel(call.tracks[k].label)
                   = NormLabel(call.detection.label)
             /\ CallSim(k) = CallCosThresh
             /\ Distance(call.center_3d, call.tracks[k].center_3d)
                   = call.dist_thresh)
            => /\ call'.matched # 0
               /\ CallSurvivors = {k} => call'.matched = k]_vars


\* The sum of num_obs over a registry.
TotalObs(trs) == SumOver(1..Len(trs), [k \in 1..Len(trs) |-> trs[k].num_obs])

\* C26: the sum of num_obs over all tracks equals the number of detections
\* that reached the association step, which are the detections with a score
\* of at least 0.25 and a non-empty point set; each of them either creates
\* one track of num_obs 1 or adds 1 to the num_obs of one track, and no other
\* step changes a num_obs or the number of tracks.
C26_ObservationsConserved ==
    [][/\ TotalObs(tracks') = n_assoc'
       /\ DetStep => (AssocStep <=> DetOf.score >= MinScore /\ IdxOf # {})
       /\ AssocStep =>
            \/ /\ NewStep
               /\ tracks'[Len(tracks')].num_obs = 1
               /\ \A k \in 1..Len(tracks) : tracks'[k].num_obs = tracks[k].num_obs
            \/ /\ UpdateStep
               /\ \E m \in 1..Len(tracks) :
                    /\ tracks'[m].num_obs = tracks[m].num_obs + 1
                    /\ \A k \in 1..Len(tracks) \ {m} :
                          tracks'[k].num_obs = tracks[k].num_obs
       /\ ~AssocStep =>
            /\ Len(tracks') = Len(tracks)
            /\ \A k \in 1..Len(tracks) : tracks'[k].num_obs = tracks[k].num_obs
      ]_vars

\* Three detections were associated and one was skipped last: two tracks,
\* one of them seen twice.
C26_Witness ==
    /\ n_assoc = 3
    /\ Len(tracks) = 2
    /\ TotalObs(tracks) = 3
    /\ \E k \in 1..Len(tracks) : tracks[k].num_obs = 2
    /\ last.op = "skip"


\* C27: every track has a non-empty point set and num_obs >= 1, and as many
\* tracks exist as were ever created; so finalization drops no track: the
\* final map has one record per track, each with num_points >= 1.
C27_NoTrackDropped ==
    /\ Len(tracks) = next_track_id
    /\ \A k \in 1..Len(tracks) :
        /\ tracks[k].point_indices # {}
        /\ tracks[k].num_obs >= 1
    /\ Finalized =>
        /\ Len(object_map) = Len(tracks)
        /\ \A j \in 1..Len(object_map) : object_map[j].value.num_points >= 1

\* A registry of two tracks, one seen twice with three map points, was
\* finalized into two records.
C27_Witness ==
    /\ pc = "done"
    /\ next_track_id = 2
    /\ Len(object_map) = 2
    /\ \E k \in 1..Len(tracks) :
        /\ tracks[k].num_obs = 2
        /\ Cardinality(tracks[k].point_indices) = 3


\* C28: a detection is matched against the registry as the earlier
\* detections of its frame left it: when the tracks that pass the gates were
\* all created or updated earlier in the same frame, the detection is still
\* merged into one of them, which counts one more observation.
C28_SameFrameTracksAreCandidates ==
    [][AssocStep =>
        LET S == Survivors(DetOf, CenterOf)
        IN  (S # {} /\ \A k \in S : tracks[k].last_seen = i) =>
                /\ UpdateStep
                /\ \E m \in S :
                    /\ tracks'[m].num_obs = tracks[m].num_obs + 1
                    /\ tracks'[m].last_seen = i]_vars

\* A track created in a frame absorbed a later detection of the same frame:
\* it has more observations than frames from its first to its last.
C28_Witness ==
    /\ last.op = "update"
    /\ \E k \in 1..Len(tracks) :
        /\ tracks[k].id = last.tid
        /\ tracks[k].first_frame_idx = last.frame
        /\ tracks[k].last_seen = last.frame
        /\ tracks[k].num_obs > tracks[k].last_seen - tracks[k].first_frame_idx + 1


\* A frame was left by one of the three `continue` statements that precede
\* the detection loop.
FrameSkipped ==
    /\ pc = "frame"
    /\ i' = i + 1
    /\ last'.op \in {"image_fail", "no_detections", "no_valid_points"}

\* C29: a frame whose image fails to load, that has no detection or for which
\* no map point projects validly leaves the registry and next_track_id as they
\* were and moves on to the next frame index; a track created in frame i has
\* first_frame_idx = last_seen = i, an update in frame i sets last_seen = i,
\* and so last_seen never decreases and first_frame_idx <= last_seen.
C29_SkippedFrameKeepsRegistry ==
    [][/\ FrameSkipped =>
            /\ tracks' = tracks
            /\ next_track_id' = next_track_id
            /\ track_to_indices' = track_to_indices
       /\ NewStep =>
            /\ tracks'[Len(tracks')].first_frame_idx = i
            /\ tracks'[Len(tracks')].last_seen = i
       /\ UpdateStep => \E m \in 1..Len(tracks) : tracks'[m].last_seen = i
       /\ Len(tracks') >= Len(tracks)
       /\ \A k \in 1..Len(tracks) :
            /\ tracks'[k].last_seen >= tracks[k].last_seen
            /\ tracks'[k].first_frame_idx = tracks[k].first_frame_idx
       /\ \A k \in 1..Len(tracks') :
            tracks'[k].first_frame_idx <= tracks'[k].last_seen]_vars

\* After a frame that built a track and a frame that was skipped for want of
\* a valid projection, the track is as the first frame left it.
C29_Witness ==
    /\ last.op = "no_valid_points"
    /\ last.frame = 1
    /\ i = 2
    /\ Len(tracks) >= 1
    /\ \A k \in 1..Len(tracks) : tracks[k].last_seen = 0
    /\ next_track_id = Len(tracks)


\* C22 as stated: a map-points payload is accepted exactly if it carries at
\* least 50 points and every point has three coordinates; every other
\* payload is rejected with HTTP 400.
C22_AcceptedIffFiftyTriples ==
    http.endpoint = "map-points" =>
        LET pts == http.request.map_points
        IN  /\ http.status \in {200, 400}
            /\ http.status = 200 <=>
                 /\ Len(pts) >= MinMapPoints
                 /\ \A k \in 1..Len(pts) : Len(pts[k]) = 3

\* The matches of an object class in the CV pipeline data, as
\* <<frame position, object position>>.
CvMatches(object_class) ==
    {m \in (1..Len(CV_PIPELINE_DATA.frames)) \X (1..6) :
        /\ m[2] <= Len(CV_PIPELINE_DATA.frames[m[1]].objects)
        /\ Lower(CV_PIPELINE_DATA.frames[m[1]].objects[m[2]].label)
             = Lower(object_class)}

\* C23 as stated: last_location answers 404 exactly if nothing matches the
\* class (ignoring case); otherwise count is the number of matches and
\* primary_location is the location of the match with the highest frame
\* number.
C23_PrimaryIsMostRecent ==
    http.endpoint = "last_location" =>
        LET M == CvMatches(http.request.object_class)
            frames == CV_PIPELINE_DATA.frames
        IN  /\ M = {} <=> http.status = 404
            /\ M # {} =>
                /\ http.status = 200
                /\ http.body.count = Cardinality(M)
                /\ \E m \in M :
                    /\ \A o \in M :
                         frames[o[1]].frame_number <= frames[m[1]].frame_number
                    /\ http.body.primary_location
                         = frames[m[1]].objects[m[2]].xyz_coordinates


\* C25 as stated: for every session a spatial map is stored under there is a
\* chat request (a video_id or a userId) that get_or_create_session_id
\* resolves to that session, so that the chat tools search the stored map.
C25_StoredMapReachableFromChat ==
    \A k \in 1..Len(store) :
        \E request \in ChatRequests, now \in Timestamps :
            /\ get_or_create_session_id(request.video_id, request.userId, now)
                 = store[k].key
            /\ get_spatial_context(store,
                    get_or_create_session_id(request.video_id, request.userId, now))
                 = store[k].value

\* The tool_use blocks of the responses received with stop_reason tool_use,
\* in the order received, from response k on.
RECURSIVE ToolUsesReceived(_, _)
ToolUsesReceived(received, k) ==
    IF k > Len(received) THEN <<>>
    ELSE (IF received[k].stop_reason = "tool_use"
          THEN SelectSeq(received[k].content, LAMBDA b : b.type = "tool_use")
          ELSE <<>>)
         \o ToolUsesReceived(received, k + 1)

\* The messages that carry a tool_result, in order: after the first user
\* message the conversation grows by an assistant message and a tool_result
\* message at a time.
ToolResults(messages) ==
    [k \in 1..((Len(messages) - 1) \div 2) |-> messages[2 * k + 1]]

\* C30 as stated: when the chat handler returns, the tool calls it made are
\* the tool_use blocks of all responses received with stop_reason tool_use,
\* each once and in order, and each is answered by one tool_result.
C30_EveryToolUseExecutedOnce ==
    [][(chat.pc = "while" /\ chat'.pc = "idle") =>
        LET expected == ToolUsesReceived(chat.received, 1)
            made == chat.tool_calls_made
            results == ToolResults(chat.messages)
        IN  /\ Len(made) = Len(expected)
            /\ Len(results) = Len(expected)
            /\ \A k \in 1..Len(expected) :
                /\ made[k].name = expected[k].name
                /\ made[k].parameters = expected[k].input
                /\ results[k].content[1].tool_use_id = expected[k].id]_vars


====
